---- MODULE Spec2Model ----
(***************************************************************************)
(* A model of the envoy-exporter metric extraction and calculation engine: *)
(* the path extractor, the condition evaluator, the metric renderer, the   *)
(* scrape handler and the calculated-metric evaluator.                     *)
(*                                                                         *)
(* Go strings are TLA+ strings (TLC evaluates Len, \o and SubSeq on them). *)
(* Indices are Go's: 0-based, Slice(s, lo, hi) is s[lo:hi].                *)
(*                                                                         *)
(* A float64 is a record [nan, v]: v counts thousandths (1000.5 is         *)
(* 1000500); NaN is the one non-finite value the code can produce within   *)
(* the bounds. Sums and differences are exact; products and quotients are  *)
(* rounded to the thousandth.                                              *)
(***************************************************************************)
EXTENDS Integers, Sequences, FiniteSets, TLC

VARIABLES
    doc,          \* harness: the decoded JSON document handed to a function
    call,         \* harness: the function call made, [fn, arg, res]
    config,       \* e.config: [queries, conditions, calcs]
    device,       \* the Envoy: per configured query, what its fetch gives
    pc,           \* position of the /metrics handler
    qi,           \* serveMetrics: index of the query being processed
    mi,           \* serveMetrics: index of the metric being processed
    ei,           \* processArrayMetrics: index of the element being processed
    jsonData,     \* serveMetrics: jsonData of the query being processed
    out,          \* the strings.Builder `metrics`, a sequence of lines
    metricCache,  \* e.metricCache
    written,      \* what w.Write sent; <<>> before it
    ci,           \* processCalculatedMetrics: index of the calculation
    expr,         \* replaceFunctions: expr
    iters,        \* replaceFunctions: loop iterations run for this calculation
    rlocked,      \* processCalculatedMetrics holds cacheMutex.RLock
    scr,          \* concurrent /metrics handlers: per handler its locals
    mqtt,         \* the MQTT publisher and its goroutines
    auth          \* e.token, e.tokenExpires, e.tokenMutex and the goroutines using them

vars == <<doc, call, config, device, pc, qi, mi, ei, jsonData, out, metricCache,
          written, ci, expr, iters, rlocked, scr, mqtt, auth>>

---------------------------------------------------------------------------
(* Go's strings package *)

Max2(a, b) == IF a >= b THEN a ELSE b

Min2(a, b) == IF a <= b THEN a ELSE b

\* s[i], 0-based
CharAt(s, i) == SubSeq(s, i + 1, i + 1)

\* s[lo:hi] for 0 <= lo <= hi <= len(s)
Slice(s, lo, hi) == SubSeq(s, lo + 1, hi)

\* s[lo:]
SliceFrom(s, lo) == SubSeq(s, lo + 1, Len(s))

HasPrefix(s, p) == Len(s) >= Len(p) /\ SubSeq(s, 1, Len(p)) = p

HasSuffix(s, p) == Len(s) >= Len(p) /\ SubSeq(s, Len(s) - Len(p) + 1, Len(s)) = p

\* strings.Index: the 0-based index of the first occurrence, or -1
Index(s, p) ==
    LET hits == {i \in 0..(Len(s) - Len(p)) : Slice(s, i, i + Len(p)) = p}
    IN  IF hits = {} THEN -1 ELSE CHOOSE i \in hits : \A j \in hits : i <= j

Contains(s, p) == Index(s, p) # -1

TrimPrefix(s, p) == IF HasPrefix(s, p) THEN SliceFrom(s, Len(p)) ELSE s

IsSpace(c) == c \in {" ", "\t", "\n", "\r"}

\* strings.Trim with the cutset given as a set of characters
RECURSIVE TrimLeftSet(_, _)
TrimLeftSet(s, cut) ==
    IF Len(s) > 0 /\ CharAt(s, 0) \in cut
    THEN TrimLeftSet(SliceFrom(s, 1), cut) ELSE s

RECURSIVE TrimRightSet(_, _)
TrimRightSet(s, cut) ==
    IF Len(s) > 0 /\ CharAt(s, Len(s) - 1) \in cut
    THEN TrimRightSet(Slice(s, 0, Len(s) - 1), cut) ELSE s

Trim(s, cut) == TrimRightSet(TrimLeftSet(s, cut), cut)

TrimSpace(s) == Trim(s, {" ", "\t", "\n", "\r"})

\* strings.Split for a non-empty separator
RECURSIVE Split(_, _)
Split(s, sep) ==
    LET i == Index(s, sep)
    IN  IF i = -1 THEN <<s>>
        ELSE <<Slice(s, 0, i)>> \o Split(SliceFrom(s, i + Len(sep)), sep)

\* strings.ReplaceAll; an empty `old` matches before every character and at
\* the end
RECURSIVE ReplaceEvery(_, _)
ReplaceEvery(s, new) ==
    IF Len(s) = 0 THEN new
    ELSE new \o CharAt(s, 0) \o ReplaceEvery(SliceFrom(s, 1), new)

RECURSIVE ReplaceAll(_, _, _)
ReplaceAll(s, old, new) ==
    IF old = "" THEN ReplaceEvery(s, new)
    ELSE LET i == Index(s, old)
         IN  IF i = -1 THEN s
             ELSE Slice(s, 0, i) \o new
                  \o ReplaceAll(SliceFrom(s, i + Len(old)), old, new)

---------------------------------------------------------------------------
(* interface{} values: what encoding/json decodes, plus the Go ints the    *)
(* transforms return. A missing map key and JSON null are both Go nil.     *)

Nil == [t |-> "null"]

Bool(b) == [t |-> "bool", b |-> b]

\* a float64; n counts thousandths
Num(n) == [t |-> "num", n |-> n]

\* a Go int
GoInt(i) == [t |-> "int", i |-> i]

Str(s) == [t |-> "str", s |-> s]

\* map[string]interface{}, a function from the keys present
Map(m) == [t |-> "map", m |-> m]

\* []interface{}
Arr(a) == [t |-> "arr", a |-> a]

\* v[part] on a map[string]interface{}: nil when the key is missing
MapGet(v, part) == IF part \in DOMAIN v.m THEN v.m[part] ELSE Nil

---------------------------------------------------------------------------
(* Path extractor *)

\* the variant of the loop that hands back the value reached so far when it
\* cannot descend
RECURSIVE PathLoopPartial(_, _, _)
PathLoopPartial(current, parts, i) ==
    IF i > Len(parts) THEN current
    ELSE IF current = Nil THEN Nil
    ELSE IF current.t = "map"
         THEN PathLoopPartial(MapGet(current, parts[i]), parts, i + 1)
    ELSE current

\* the loop over the path's parts; `current` after parts 1..i-1
RECURSIVE PathLoop(_, _, _)
PathLoop(current, parts, i) ==
    IF i > Len(parts) THEN current
    ELSE IF current = Nil THEN Nil
    ELSE IF current.t = "map"
         THEN PathLoop(MapGet(current, parts[i]), parts, i + 1)
    ELSE IF current.t = "arr" THEN Nil
    \* a bool, number or string is neither a pointer nor a struct
    ELSE Nil

getJSONPathValue(data, path) ==
    IF data = Nil THEN Nil
    ELSE PathLoop(data, Split(path, "."), 1)

jsonPathExists(data, path) == getJSONPathValue(data, path) # Nil

---------------------------------------------------------------------------
(* Condition evaluator *)

\* the variant that looks only at the first element
arrayHasTypeFirstOnly(data, typeVal) ==
    /\ data.t = "arr"
    /\ Len(data.a) > 0
    /\ data.a[1].t = "map"
    /\ MapGet(data.a[1], "type") = Str(typeVal)

arrayHasType(data, typeVal) ==
    /\ data.t = "arr"
    /\ \E k \in 1..Len(data.a) :
          /\ data.a[k].t = "map"
          /\ MapGet(data.a[k], "type").t = "str"
          /\ MapGet(data.a[k], "type").s = typeVal

CutSet == {"(", ")", "\""}

\* the variant whose default is to block
evaluateConditionCheckFailClosed(check, data) ==
    IF check = "endpoint_accessible" THEN data # Nil
    ELSE IF HasPrefix(check, "json_path_exists")
    THEN jsonPathExists(data, Trim(TrimPrefix(check, "json_path_exists("), CutSet))
    ELSE IF HasPrefix(check, "json_path_value")
    THEN LET parts == Split(check, " ")
         IN  /\ Len(parts) >= 3
             /\ LET value == getJSONPathValue(data,
                                Trim(TrimPrefix(parts[1], "json_path_value("), CutSet))
                IN  value.t = "num" /\ value.n # 0
    ELSE IF Contains(check, "array_has_type")
    THEN arrayHasType(data, Trim(TrimPrefix(check, "array_has_type("), CutSet))
    ELSE FALSE

evaluateConditionCheck(check, data) ==
    IF check = "endpoint_accessible" THEN data # Nil
    ELSE IF HasPrefix(check, "json_path_exists")
    THEN jsonPathExists(data, Trim(TrimPrefix(check, "json_path_exists("), CutSet))
    ELSE IF HasPrefix(check, "json_path_value")
    THEN LET parts == Split(check, " ")
         IN  /\ Len(parts) >= 3
             /\ LET value == getJSONPathValue(data,
                                Trim(TrimPrefix(parts[1], "json_path_value("), CutSet))
                IN  value.t = "num" /\ value.n # 0
    ELSE IF Contains(check, "array_has_type")
    THEN arrayHasType(data, Trim(TrimPrefix(check, "array_has_type("), CutSet))
    ELSE TRUE

\* the scan of e.config.Conditions.Conditions from entry k on
RECURSIVE CondScan(_, _, _, _)
CondScan(conds, k, condition, data) ==
    IF k > Len(conds) THEN TRUE
    ELSE IF conds[k].name = condition
         THEN evaluateConditionCheck(conds[k].check, data)
    ELSE CondScan(conds, k + 1, condition, data)

checkCondition(condition, data) ==
    IF condition = "" THEN TRUE
    ELSE CondScan(config.conditions, 1, condition, data)

---------------------------------------------------------------------------
(* float64, strconv.ParseFloat and the formatting verbs *)

F(v) == [nan |-> FALSE, v |-> v]

NaN == [nan |-> TRUE, v |-> 0]

Abs(n) == IF n < 0 THEN -n ELSE n

\* n/d rounded to the nearest integer, halves away from zero
RoundDiv(n, d) ==
    LET q == Abs(n) \div Abs(d)
        r == Abs(n) % Abs(d)
        m == IF 2 * r >= Abs(d) THEN q + 1 ELSE q
    IN  IF (n < 0) = (d < 0) THEN m ELSE -m

FAdd(a, b) == IF a.nan \/ b.nan THEN NaN ELSE F(a.v + b.v)

FSub(a, b) == IF a.nan \/ b.nan THEN NaN ELSE F(a.v - b.v)

\* a.v * b.v / 1000, the whole thousands of a.v multiplied apart
FMul(a, b) ==
    IF a.nan \/ b.nan THEN NaN
    ELSE F((a.v \div 1000) * b.v + RoundDiv((a.v % 1000) * b.v, 1000))

\* for b # 0
FDiv(a, b) == IF a.nan \/ b.nan THEN NaN ELSE F(RoundDiv(a.v * 1000, b.v))

\* math.Max and math.Min: NaN if either argument is
FMax(a, b) == IF a.nan \/ b.nan THEN NaN ELSE F(Max2(a.v, b.v))

FMin(a, b) == IF a.nan \/ b.nan THEN NaN ELSE F(Min2(a.v, b.v))

IsDigit(c) == c \in {"0", "1", "2", "3", "4", "5", "6", "7", "8", "9"}

DigitVal(c) == Index("0123456789", c)

DigitChar(d) == CharAt("0123456789", d)

\* the decimal digits of n >= 0
RECURSIVE Itoa(_)
Itoa(n) == IF n < 10 THEN DigitChar(n) ELSE Itoa(n \div 10) \o DigitChar(n % 10)

AllDigits(s) == \A i \in 0..(Len(s) - 1) : IsDigit(CharAt(s, i))

\* the value of a string of digits; 0 for ""
RECURSIVE Atoi(_)
Atoi(s) ==
    IF Len(s) = 0 THEN 0
    ELSE 10 * Atoi(Slice(s, 0, Len(s) - 1)) + DigitVal(CharAt(s, Len(s) - 1))

\* the thousandths a fraction's digits stand for; digits after the third
\* are dropped
FracMilli(s) == Atoi(Slice(s \o "000", 0, 3))

\* strconv.ParseFloat(s, 64) on the forms that occur: NaN in any case, and
\* [+-]digits[.digits] with at least one digit. [ok, f]; ok is err == nil.
ParseFloat(s) ==
    IF Len(s) = 3 /\ CharAt(s, 0) \in {"N", "n"} /\ CharAt(s, 1) \in {"A", "a"}
       /\ CharAt(s, 2) \in {"N", "n"}
    THEN [ok |-> TRUE, f |-> NaN]
    ELSE LET signed == Len(s) > 0 /\ CharAt(s, 0) \in {"+", "-"}
             neg    == Len(s) > 0 /\ CharAt(s, 0) = "-"
             body   == IF signed THEN SliceFrom(s, 1) ELSE s
             dot    == Index(body, ".")
             ip     == IF dot = -1 THEN body ELSE Slice(body, 0, dot)
             fp     == IF dot = -1 THEN "" ELSE SliceFrom(body, dot + 1)
         IN  IF AllDigits(ip) /\ AllDigits(fp) /\ Len(ip) + Len(fp) > 0
             THEN [ok |-> TRUE,
                   f  |-> F((IF neg THEN -1 ELSE 1) * (Atoi(ip) * 1000 + FracMilli(fp)))]
             ELSE [ok |-> FALSE, f |-> F(0)]

\* two digits
Pad2(n) == IF n < 10 THEN "0" \o Itoa(n) ELSE Itoa(n)

\* fmt.Sprintf("%.2f", f)
Fmt2(f) ==
    IF f.nan THEN "NaN"
    ELSE LET h == RoundDiv(Abs(f.v), 10)
         IN  (IF f.v < 0 THEN "-" ELSE "") \o Itoa(h \div 100) \o "." \o Pad2(h % 100)

\* fmt.Sprintf("%v", f) for |f| < 1e6: the shortest decimal that reads back
FmtG(f) ==
    IF f.nan THEN "NaN"
    ELSE LET a == Abs(f.v)
             frac == a % 1000
             digits == IF frac = 0 THEN ""
                       ELSE IF frac % 100 = 0 THEN "." \o Itoa(frac \div 100)
                       ELSE IF frac % 10 = 0 THEN "." \o Pad2(frac \div 10)
                       ELSE "." \o (IF frac < 100 THEN "0" ELSE "") \o Pad2(frac)
         IN  (IF f.v < 0 THEN "-" ELSE "") \o Itoa(a \div 1000) \o digits

---------------------------------------------------------------------------
(* Calculated-metric evaluator: expressions *)

\* the variant in which a zero right operand gives the left operand
RECURSIVE evaluateExpressionZeroDivLeft(_)
evaluateExpressionZeroDivLeft(e0) ==
    LET e == TrimSpace(e0)
        plus  == Split(e, "+")
        minus == Split(e, "-")
        times == Split(e, "*")
        over  == Split(e, "/")
        num   == ParseFloat(e)
    IN  IF Contains(e, "+") /\ Len(plus) = 2
        THEN FAdd(evaluateExpressionZeroDivLeft(TrimSpace(plus[1])),
                  evaluateExpressionZeroDivLeft(TrimSpace(plus[2])))
        ELSE IF Contains(e, "-") /\ ~HasPrefix(e, "-") /\ Len(minus) = 2
        THEN FSub(evaluateExpressionZeroDivLeft(TrimSpace(minus[1])),
                  evaluateExpressionZeroDivLeft(TrimSpace(minus[2])))
        ELSE IF Contains(e, "*") /\ Len(times) = 2
        THEN FMul(evaluateExpressionZeroDivLeft(TrimSpace(times[1])),
                  evaluateExpressionZeroDivLeft(TrimSpace(times[2])))
        ELSE IF Contains(e, "/") /\ Len(over) = 2
        THEN LET left  == evaluateExpressionZeroDivLeft(TrimSpace(over[1]))
                 right == evaluateExpressionZeroDivLeft(TrimSpace(over[2]))
             IN  IF right.nan \/ right.v # 0 THEN FDiv(left, right) ELSE left
        ELSE IF num.ok THEN num.f
        ELSE NaN

RECURSIVE evaluateExpression(_)
evaluateExpression(e0) ==
    LET e == TrimSpace(e0)
        plus  == Split(e, "+")
        minus == Split(e, "-")
        times == Split(e, "*")
        over  == Split(e, "/")
        num   == ParseFloat(e)
    IN  IF Contains(e, "+") /\ Len(plus) = 2
        THEN FAdd(evaluateExpression(TrimSpace(plus[1])),
                  evaluateExpression(TrimSpace(plus[2])))
        ELSE IF Contains(e, "-") /\ ~HasPrefix(e, "-") /\ Len(minus) = 2
        THEN FSub(evaluateExpression(TrimSpace(minus[1])),
                  evaluateExpression(TrimSpace(minus[2])))
        ELSE IF Contains(e, "*") /\ Len(times) = 2
        THEN FMul(evaluateExpression(TrimSpace(times[1])),
                  evaluateExpression(TrimSpace(times[2])))
        \* a zero right operand falls through to the parse of the whole string
        ELSE IF /\ Contains(e, "/") /\ Len(over) = 2
                /\ LET right == evaluateExpression(TrimSpace(over[2]))
                   IN  right.nan \/ right.v # 0
        THEN FDiv(evaluateExpression(TrimSpace(over[1])),
                  evaluateExpression(TrimSpace(over[2])))
        ELSE IF num.ok THEN num.f
        ELSE NaN

---------------------------------------------------------------------------
(* Transform registry and metric renderer *)

\* the variant whose bool_to_int also converts numbers
transformValueTruthy(value, transform) ==
    CASE transform = "bool_to_int" ->
            IF value.t = "bool" THEN (IF value.b THEN GoInt(1) ELSE GoInt(0))
            ELSE IF value.t = "int" THEN (IF value.i # 0 THEN GoInt(0) ELSE GoInt(1))
            ELSE IF value.t = "num" THEN (IF value.n # 0 THEN GoInt(1) ELSE GoInt(0))
            ELSE value
      [] transform = "mw_to_watts" ->
            IF value.t = "num" THEN Num(RoundDiv(value.n, 1000))
            ELSE IF value.t = "int" THEN Num(value.i)
            ELSE value
      [] transform = "connected_to_int" ->
            IF value.t = "str" /\ value.s = "connected" THEN GoInt(1) ELSE GoInt(0)
      [] transform = "ok_to_int" ->
            IF value.t = "str" /\ value.s = "ok" THEN GoInt(1) ELSE GoInt(0)
      [] transform = "enabled_to_int" ->
            IF value.t = "str" /\ value.s = "enabled" THEN GoInt(1) ELSE GoInt(0)
      [] transform = "battery_state_to_int" ->
            IF value.t = "str"
            THEN (IF value.s = "charging" THEN GoInt(1)
                  ELSE IF value.s = "discharging" THEN GoInt(-1)
                  ELSE GoInt(0))
            ELSE GoInt(0)
      [] OTHER -> value

transformValue(value, transform) ==
    CASE transform = "bool_to_int" ->
            IF value.t = "bool" THEN (IF value.b THEN GoInt(1) ELSE GoInt(0))
            ELSE value
      [] transform = "mw_to_watts" ->
            IF value.t = "num" THEN Num(RoundDiv(value.n, 1000))
            ELSE IF value.t = "int" THEN Num(value.i)
            ELSE value
      [] transform = "connected_to_int" ->
            IF value.t = "str" /\ value.s = "connected" THEN GoInt(1) ELSE GoInt(0)
      [] transform = "ok_to_int" ->
            IF value.t = "str" /\ value.s = "ok" THEN GoInt(1) ELSE GoInt(0)
      [] transform = "enabled_to_int" ->
            IF value.t = "str" /\ value.s = "enabled" THEN GoInt(1) ELSE GoInt(0)
      [] transform = "battery_state_to_int" ->
            IF value.t = "str"
            THEN (IF value.s = "charging" THEN GoInt(1)
                  ELSE IF value.s = "discharging" THEN GoInt(-1)
                  ELSE GoInt(0))
            ELSE GoInt(0)
      [] OTHER -> value

\* the order in which fmt prints map keys (sorted), for the keys the
\* documents use
KeyRank ==
    <<"a", "b", "lastReportWatts", "load", "pv", "serialNumber", "type", "wattsNow">>

\* fmt.Sprintf("%v", value)
RECURSIVE FmtV(_)
FmtV(value) ==
    CASE value.t = "null" -> "<nil>"
      [] value.t = "bool" -> IF value.b THEN "true" ELSE "false"
      [] value.t = "num"  -> FmtG(F(value.n))
      [] value.t = "int"  -> (IF value.i < 0 THEN "-" ELSE "") \o Itoa(Abs(value.i))
      [] value.t = "str"  -> value.s
      [] value.t = "arr"  ->
            LET RECURSIVE Join(_)
                Join(k) == IF k > Len(value.a) THEN ""
                           ELSE (IF k > 1 THEN " " ELSE "") \o FmtV(value.a[k])
                                \o Join(k + 1)
            IN  "[" \o Join(1) \o "]"
      [] value.t = "map"  ->
            LET RECURSIVE Join(_, _)
                Join(k, first) ==
                    IF k > Len(KeyRank) THEN ""
                    ELSE IF KeyRank[k] \in DOMAIN value.m
                         THEN (IF first THEN "" ELSE " ") \o KeyRank[k] \o ":"
                              \o FmtV(value.m[KeyRank[k]]) \o Join(k + 1, FALSE)
                    ELSE Join(k + 1, first)
            IN  "map[" \o Join(1, TRUE) \o "]"

\* the variant in which a value field whose path does not resolve keeps the
\* earlier value
RECURSIVE FieldLoopKeep(_, _, _, _, _)
FieldLoopKeep(fields, i, data, labels, metricValue) ==
    IF i > Len(fields) THEN [labels |-> labels, value |-> metricValue]
    ELSE LET field == fields[i]
             got   == getJSONPathValue(data, field.jsonPath)
         IN  IF field.label # ""
             THEN FieldLoopKeep(fields, i + 1, data,
                     IF field.labelValue # ""
                     THEN (field.label :> field.labelValue) @@ labels
                     ELSE IF got # Nil
                     THEN (field.label :> FmtV(got)) @@ labels
                     ELSE labels,
                     metricValue)
             ELSE FieldLoopKeep(fields, i + 1, data, labels,
                     IF got = Nil THEN metricValue
                     ELSE IF field.transform # ""
                     THEN transformValue(got, field.transform)
                     ELSE got)

\* the first loop over metric.Fields, from field i on: [labels, value]
RECURSIVE FieldLoop(_, _, _, _, _)
FieldLoop(fields, i, data, labels, metricValue) ==
    IF i > Len(fields) THEN [labels |-> labels, value |-> metricValue]
    ELSE LET field == fields[i]
             got   == getJSONPathValue(data, field.jsonPath)
         IN  IF field.label # ""
             THEN FieldLoop(fields, i + 1, data,
                     IF field.labelValue # ""
                     THEN (field.label :> field.labelValue) @@ labels
                     ELSE IF got # Nil
                     THEN (field.label :> FmtV(got)) @@ labels
                     ELSE labels,
                     metricValue)
             ELSE FieldLoop(fields, i + 1, data, labels,
                     IF field.transform # ""
                     THEN transformValue(got, field.transform)
                     ELSE got)

\* the second loop over metric.Fields: the two-path percentage
RECURSIVE PercentLoop(_, _, _, _)
PercentLoop(fields, i, data, metricValue) ==
    IF i > Len(fields) THEN metricValue
    ELSE LET field == fields[i]
             paths == Split(field.jsonPath, ",")
             strength    == getJSONPathValue(data, paths[1])
             maxStrength == getJSONPathValue(data, paths[2])
         IN  PercentLoop(fields, i + 1, data,
                IF /\ field.transform = "signal_strength_percentage"
                   /\ Contains(field.jsonPath, ",")
                   /\ Len(paths) = 2
                   /\ strength.t = "num"
                   /\ maxStrength.t = "num"
                   /\ maxStrength.n > 0
                THEN Num(FMul(FDiv(F(strength.n), F(maxStrength.n)), F(100000)).v)
                ELSE metricValue)

\* the label part of a sample line, the keys written in the order `ord`
RECURSIVE LabelParts(_, _, _)
LabelParts(labels, ord, k) ==
    IF k > Len(ord) THEN ""
    ELSE (IF k > 1 THEN "," ELSE "") \o ord[k] \o "=\"" \o labels[ord[k]] \o "\""
         \o LabelParts(labels, ord, k + 1)

LabelStr(labels, ord) ==
    IF DOMAIN labels = {} THEN "" ELSE "{" \o LabelParts(labels, ord, 1) \o "}"

\* the orders in which the range over a map of these keys can visit them
Orders(keys) ==
    {ord \in [1..Cardinality(keys) -> keys] :
        \A i, j \in 1..Cardinality(keys) : ord[i] = ord[j] => i = j}

\* the variant that caches only values held as strings
CacheSampleStringsOnly(cache, name, metricValue) ==
    IF metricValue.t = "str" /\ ParseFloat(metricValue.s).ok
    THEN (name :> ParseFloat(metricValue.s).f) @@ cache
    ELSE cache

\* the cache write that follows an emitted sample
CacheSample(cache, name, metricValue) ==
    IF metricValue.t = "num" THEN (name :> F(metricValue.n)) @@ cache
    ELSE IF metricValue.t = "int" THEN (name :> F(metricValue.i * 1000)) @@ cache
    ELSE IF metricValue.t = "str" /\ ParseFloat(metricValue.s).ok
         THEN (name :> ParseFloat(metricValue.s).f) @@ cache
    ELSE cache

\* what the fields and the static fallback of a metric give on a document
MetricFields(metric, data) ==
    LET first == FieldLoop(metric.fields, 1, data, <<>>, Nil)
        second == PercentLoop(metric.fields, 1, data, first.value)
    IN  [labels |-> first.labels,
         value  |-> IF second = Nil /\ metric.value # "" THEN Str(metric.value)
                    ELSE second]

\* the variant that writes the HELP and TYPE lines before it checks the condition
processMetricPreambleFirst(metric, data, cache, ord) ==
    IF ~checkCondition(metric.condition, data)
    THEN [lines |-> << "# HELP " \o metric.name \o " " \o metric.help,
                       "# TYPE " \o metric.name \o " " \o metric.type >>,
          cache |-> cache]
    ELSE LET preamble == << "# HELP " \o metric.name \o " " \o metric.help,
                            "# TYPE " \o metric.name \o " " \o metric.type >>
             got == MetricFields(metric, data)
         IN  IF Len(metric.fields) = 0
             THEN [lines |-> Append(preamble,
                       metric.name \o " "
                       \o (IF metric.value # "" THEN metric.value ELSE "1")),
                   cache |-> cache]
             ELSE IF got.value # Nil
             THEN [lines |-> Append(preamble,
                       metric.name \o LabelStr(got.labels, ord) \o " "
                       \o FmtV(got.value)),
                   cache |-> CacheSample(cache, metric.name, got.value)]
             ELSE [lines |-> preamble, cache |-> cache]

\* the variant without the default sample 1 of a metric that has no fields
processMetricNoDefault(metric, data, cache, ord) ==
    IF ~checkCondition(metric.condition, data)
    THEN [lines |-> <<>>, cache |-> cache]
    ELSE LET preamble == << "# HELP " \o metric.name \o " " \o metric.help,
                            "# TYPE " \o metric.name \o " " \o metric.type >>
             got == MetricFields(metric, data)
         IN  IF Len(metric.fields) = 0
             THEN [lines |-> IF metric.value # ""
                             THEN Append(preamble, metric.name \o " " \o metric.value)
                             ELSE preamble,
                   cache |-> cache]
             ELSE IF got.value # Nil
             THEN [lines |-> Append(preamble,
                       metric.name \o LabelStr(got.labels, ord) \o " "
                       \o FmtV(got.value)),
                   cache |-> CacheSample(cache, metric.name, got.value)]
             ELSE [lines |-> preamble, cache |-> cache]

\* processMetric: the lines it appends to the builder and the cache after it;
\* `ord` is the order in which the range over the labels map visits its keys
processMetric(metric, data, cache, ord) ==
    IF ~checkCondition(metric.condition, data)
    THEN [lines |-> <<>>, cache |-> cache]
    ELSE LET preamble == << "# HELP " \o metric.name \o " " \o metric.help,
                            "# TYPE " \o metric.name \o " " \o metric.type >>
             got == MetricFields(metric, data)
         IN  IF Len(metric.fields) = 0
             THEN [lines |-> Append(preamble,
                       metric.name \o " "
                       \o (IF metric.value # "" THEN metric.value ELSE "1")),
                   cache |-> cache]
             ELSE IF got.value # Nil
             THEN [lines |-> Append(preamble,
                       metric.name \o LabelStr(got.labels, ord) \o " "
                       \o FmtV(got.value)),
                   cache |-> CacheSample(cache, metric.name, got.value)]
             ELSE [lines |-> preamble, cache |-> cache]

\* the label keys processMetric ends up with
LabelKeys(metric, data) == DOMAIN MetricFields(metric, data).labels

---------------------------------------------------------------------------
(* Calculated-metric evaluator: condition gate, substitution, functions *)

\* e.metricCache[name], the zero value when the key is missing
CacheGet(cache, name) == IF name \in DOMAIN cache THEN cache[name] ELSE F(0)

\* the variant in which storage_present asks for a positive value
checkCalculatedConditionPositive(condition, cache) ==
    CASE condition = "" -> TRUE
      [] condition = "pv_producing" ->
            LET f == CacheGet(cache, "envoy_pv_power_watts") IN ~f.nan /\ f.v > 0
      [] condition = "load_present" ->
            LET f == CacheGet(cache, "envoy_load_power_watts") IN ~f.nan /\ f.v > 0
      [] condition = "storage_present" ->
            LET f == CacheGet(cache, "envoy_storage_power_watts") IN ~f.nan /\ f.v > 0
      [] OTHER -> TRUE

checkCalculatedCondition(condition, cache) ==
    CASE condition = "" -> TRUE
      [] condition = "pv_producing" ->
            LET f == CacheGet(cache, "envoy_pv_power_watts") IN ~f.nan /\ f.v > 0
      [] condition = "load_present" ->
            LET f == CacheGet(cache, "envoy_load_power_watts") IN ~f.nan /\ f.v > 0
      [] condition = "storage_present" ->
            "envoy_storage_power_watts" \in DOMAIN cache
      [] OTHER -> TRUE

\* the substitution loop of evaluateCalculation; `ord` is the order in which
\* the range over e.metricCache visits its keys, from its k-th key on
RECURSIVE Substitute(_, _, _, _)
Substitute(expression, cache, ord, k) ==
    IF k > Len(ord) THEN expression
    ELSE Substitute(ReplaceAll(expression, ord[k], Fmt2(cache[ord[k]])),
                    cache, ord, k + 1)

\* the scan for the closing parenthesis from index i on; `end` when none
RECURSIVE ScanClose(_, _, _, _)
ScanClose(e, i, depth, end) ==
    IF i >= Len(e) THEN end
    ELSE IF CharAt(e, i) = "(" THEN ScanClose(e, i + 1, depth + 1, end)
    ELSE IF CharAt(e, i) = ")"
         THEN (IF depth = 0 THEN i ELSE ScanClose(e, i + 1, depth - 1, end))
    ELSE ScanClose(e, i + 1, depth, end)

\* expr[:start] + text + expr[end+1:]; the slice panics when end+1 > len(expr)
Splice(e, start, end, text) ==
    IF end + 1 > Len(e) THEN [panic |-> TRUE, expr |-> e]
    ELSE [panic |-> FALSE,
          expr  |-> Slice(e, 0, start) \o text \o SliceFrom(e, end + 1)]

\* one iteration of the max(0, ...) loop, for an expression containing "max(0,"
MaxStep(e) ==
    LET start == Index(e, "max(0,")
        end   == ScanClose(e, start + 6, 0, start + 6)
        value == evaluateExpression(TrimSpace(Slice(e, start + 6, end)))
    IN  Splice(e, start, end, Fmt2(FMax(F(0), value)))

\* one iteration of the clamp( loop, for an expression containing "clamp("
ClampStep(e) ==
    LET start == Index(e, "clamp(")
        end   == ScanClose(e, start + 6, 0, start + 6)
        args  == Split(Slice(e, start + 6, end), ",")
    IN  IF Len(args) = 3
        THEN Splice(e, start, end,
                Fmt2(FMax(evaluateExpression(TrimSpace(args[1])),
                          FMin(evaluateExpression(TrimSpace(args[2])),
                               evaluateExpression(TrimSpace(args[3]))))))
        ELSE [panic |-> FALSE, expr |-> e]

\* the variant that falls back to the default only for NaN
CoalesceStepNaNOnly(e) ==
    LET start == Index(e, "coalesce(")
        end   == ScanClose(e, start + 9, 0, start + 9)
        args  == Split(Slice(e, start + 9, end), ",")
        value == evaluateExpression(TrimSpace(args[1]))
        defaultVal == evaluateExpression(TrimSpace(args[2]))
    IN  IF Len(args) = 2
        THEN Splice(e, start, end, Fmt2(IF value.nan THEN defaultVal ELSE value))
        ELSE [panic |-> FALSE, expr |-> e]

\* one iteration of the coalesce( loop, for an expression containing "coalesce("
CoalesceStep(e) ==
    LET start == Index(e, "coalesce(")
        end   == ScanClose(e, start + 9, 0, start + 9)
        args  == Split(Slice(e, start + 9, end), ",")
        value == evaluateExpression(TrimSpace(args[1]))
        defaultVal == evaluateExpression(TrimSpace(args[2]))
    IN  IF Len(args) = 2
        THEN Splice(e, start, end,
                Fmt2(IF value.nan \/ value.v = 0 THEN defaultVal ELSE value))
        ELSE [panic |-> FALSE, expr |-> e]

\* the lines processCalculatedMetrics writes for a calculation whose value is
\* `value`
CalcLines(calc, value) ==
    IF value.nan THEN <<>>
    ELSE << "# HELP " \o calc.name \o " " \o calc.help,
            "# TYPE " \o calc.name \o " " \o calc.type,
            calc.name \o " " \o Fmt2(value) >>

\* the exporter info serveMetrics appends
HealthLines(tokenExpires, now) ==
    << "# HELP envoy_exporter_up Exporter up status",
       "# TYPE envoy_exporter_up gauge",
       "envoy_exporter_up 1",
       "# HELP envoy_token_expires_timestamp Token expiry timestamp",
       "# TYPE envoy_token_expires_timestamp gauge",
       "envoy_token_expires_timestamp " \o Itoa(tokenExpires),
       "# HELP envoy_scrape_timestamp Timestamp of this scrape",
       "# TYPE envoy_scrape_timestamp gauge",
       "envoy_scrape_timestamp " \o Itoa(now) >>

---------------------------------------------------------------------------
(* The function harness: one document, one call of one function on it *)

MaxPathLen == 4

MaxArr == 2

RECURSIVE StringsUpTo(_, _)
StringsUpTo(alphabet, n) ==
    IF n = 0 THEN {""}
    ELSE LET shorter == StringsUpTo(alphabet, n - 1)
         IN  shorter \cup {s \o c : s \in shorter, c \in alphabet}

Paths == StringsUpTo({"a", "b", "."}, MaxPathLen)

Leaves == {Nil, Num(2000), Str("X"), Arr(<<>>)}

MapsOver(keys, values) == UNION {[D -> values] : D \in SUBSET keys}

Docs1 == Leaves \cup {Map(m) : m \in MapsOver({"a", "b"}, Leaves)}

Docs2 == Leaves \cup {Map(m) : m \in MapsOver({"a", "b"}, Docs1)}

Elems ==
    { Map("type" :> Str("X")), Map("type" :> Str("Y")), Map("type" :> Num(2000)),
      Map("a" :> Str("X")), Str("X") }

ArrDocs == {Arr(a) : a \in UNION {[1..n -> Elems] : n \in 0..MaxArr}}

Docs == Docs2 \cup ArrDocs \cup {Bool(TRUE), Num(0), Map("a" :> Num(0))}

HarnessConds ==
    << [name |-> "reachable", check |-> "endpoint_accessible"],
       [name |-> "has_a",     check |-> "json_path_exists(a)"],
       [name |-> "has_x",     check |-> "array_has_type(X)"],
       [name |-> "odd",       check |-> "always_on"],
       [name |-> "has_x",     check |-> "array_has_type(Y)"] >>

CondNames == {"", "nonexistent", "reachable", "has_a", "has_x", "odd", "Has_a"}

TypeNames == {"X", "Y", "Z", ""}

Checks ==
    { "endpoint_accessible", "json_path_exists(a.b)", "json_path_exists(\"a\")",
      "json_path_value(a) > 0", "json_path_value(a)", "always_on", "",
      "json_path_value(a)>0", "json_path_value(a) >0", "json_path_value(a.b) == 5",
      "json_path_value(\"a\") < 0 or more",
      "Endpoint_accessible", "path_exists(a)", "has_type(X)" }
    \cup {"array_has_type(" \o ty \o ")" : ty \in TypeNames}
    \cup {"array_has_type(\"" \o ty \o "\")" : ty \in TypeNames}

\* no MQTT publisher is configured
MqttOff == [pc |-> "off"]

\* the token and its goroutines are left out
AuthOff == [pc |-> "off"]

\* no /metrics request is being served by the handler of Spec
HandlerIdle ==
    /\ device = <<>>
    /\ pc = "off"
    /\ qi = 0
    /\ mi = 0
    /\ ei = 0
    /\ jsonData = Nil
    /\ out = <<>>
    /\ metricCache = <<>>
    /\ written = <<>>
    /\ ci = 0
    /\ expr = ""
    /\ iters = 0
    /\ rlocked = FALSE

ScrapeIdle ==
    /\ HandlerIdle
    /\ scr = <<>>
    /\ mqtt = MqttOff
    /\ auth = AuthOff

scrapeVars == <<device, pc, qi, mi, ei, jsonData, out, metricCache, written, ci,
                expr, iters, rlocked>>

InitFn ==
    /\ doc \in Docs
    /\ call = [fn |-> "none"]
    /\ \E conds \in {<<>>, HarnessConds} :
          config = [queries |-> <<>>, conditions |-> conds, calcs |-> <<>>]
    /\ ScrapeIdle

CallGetJSONPathValue ==
    /\ call.fn = "none"
    /\ \E path \in Paths :
          call' = [fn |-> "getJSONPathValue", arg |-> path,
                   res |-> getJSONPathValue(doc, path)]
    /\ UNCHANGED <<doc, config, scrapeVars, scr, mqtt, auth>>

CallCheckCondition ==
    /\ call.fn = "none"
    /\ \E condition \in CondNames :
          call' = [fn |-> "checkCondition", arg |-> condition,
                   res |-> checkCondition(condition, doc)]
    /\ UNCHANGED <<doc, config, scrapeVars, scr, mqtt, auth>>

CallEvaluateConditionCheck ==
    /\ call.fn = "none"
    /\ \E check \in Checks :
          call' = [fn |-> "evaluateConditionCheck", arg |-> check,
                   res |-> evaluateConditionCheck(check, doc)]
    /\ UNCHANGED <<doc, config, scrapeVars, scr, mqtt, auth>>

NextFn ==
    \/ CallGetJSONPathValue
    \/ CallCheckCondition
    \/ CallEvaluateConditionCheck

SpecFn == InitFn /\ [][NextFn]_vars

---------------------------------------------------------------------------
(* The /metrics handler: serveMetrics, one step per fetch, per processMetric *)
(* call and per loop iteration of replaceFunctions                          *)

MaxIters == 3

Field(jsonPath, label, labelValue, transform) ==
    [jsonPath |-> jsonPath, label |-> label, labelValue |-> labelValue,
     transform |-> transform]

Gauge(name, help, condition, value, fields) ==
    [name |-> name, help |-> help, type |-> "gauge", condition |-> condition,
     value |-> value, fields |-> fields]

Query(name, array, condition, metrics) ==
    [name |-> name, url |-> "https://{envoy_ip}/" \o name, array |-> array,
     condition |-> condition, metrics |-> metrics]

Calc(name, condition, calculation) ==
    [name |-> name, help |-> "Calculated", type |-> "gauge",
     condition |-> condition, calculation |-> calculation]

\* what a fetch can give: makeEnvoyRequest fails, json.Unmarshal fails, or a
\* document
FetchError == [k |-> "fetch_error"]

BadJson == [k |-> "bad_json"]

Json(d) == [k |-> "json", d |-> d]

QProduction ==
    Query("production", FALSE, "",
          << Gauge("envoy_production_watts_now", "Current production", "", "",
                   <<Field("wattsNow", "", "", "")>>) >>)

QInverters ==
    Query("inverters", TRUE, "",
          << Gauge("envoy_inverter_watts", "Inverter power", "", "",
                   << Field("serialNumber", "serial", "", ""),
                      Field("lastReportWatts", "", "", "") >>) >>)

QMeters ==
    Query("meters", FALSE, "has_a",
          << Gauge("envoy_meter_enabled", "Meter state", "", "",
                   <<Field("a", "", "", "enabled_to_int")>>),
             Gauge("envoy_meter_info", "Meter info", "", "", <<>>) >>)

ScrapeConds == <<[name |-> "has_a", check |-> "json_path_exists(a)"]>>

InverterElems ==
    { Map(("serialNumber" :> Str("A1")) @@ ("lastReportWatts" :> Num(100000))),
      Map(("serialNumber" :> Str("A2")) @@ ("lastReportWatts" :> Num(0))),
      Map("serialNumber" :> Str("A3")) }

\* what the device can answer to a query
Answers(query) ==
    CASE query.name = "production" ->
            { FetchError, BadJson, Json(Map("wattsNow" :> Num(4250500))),
              Json(Map("wattsNow" :> Num(0))), Json(Map(<<>>)) }
      [] query.name = "inverters" ->
            { FetchError, Json(Map(<<>>)) }
            \cup {Json(Arr(a)) : a \in UNION {[1..n -> InverterElems] : n \in 0..MaxArr}}
      [] query.name = "meters" ->
            { BadJson, Json(Map("a" :> Str("enabled"))), Json(Map("b" :> Num(1000))) }
      [] query.name = "power" ->
            { FetchError, BadJson }
            \cup {Json(Map(m)) :
                    m \in MapsOver({"pv", "load"},
                                   {Num(1000000), Num(800000), Num(0), Num(-800000)})}
            \cup {Json(Map(("pv" :> Num(1000000)) @@ ("load" :> Num(800000))
                           @@ ("storage" :> s))) :
                    s \in {Num(0), Num(-500000), Num(500000)}}

\* the sequences that pick one answer per query
RECURSIVE DeviceStates(_)
DeviceStates(queries) ==
    IF queries = <<>> THEN {<<>>}
    ELSE {<<a>> \o rest : a \in Answers(Head(queries)),
                          rest \in DeviceStates(Tail(queries))}

ScrapeCalcs ==
    << Calc("envoy_net_watts", "",
            "max(0, envoy_production_watts_now - envoy_inverter_watts)"),
       Calc("envoy_pv_share", "pv_producing", "envoy_production_watts_now / 2"),
       Calc("envoy_production_capped", "", "clamp(0, 1000, envoy_production_watts_now)"),
       Calc("envoy_inverter_or_one", "", "coalesce(envoy_inverter_watts, 1)") >>

TokenExpiries == {1762000000, 1762086400}

Clock == {1761990000}

Init ==
    /\ doc = Nil
    /\ call = [fn |-> "none"]
    /\ \E queries \in {<<QProduction>>, <<QProduction, QInverters, QMeters>>,
                       <<QMeters, QProduction>>} :
          /\ config = [queries |-> queries, conditions |-> ScrapeConds,
                       calcs |-> ScrapeCalcs]
          /\ device \in DeviceStates(queries)
    /\ pc = "start"
    /\ qi = 0
    /\ mi = 0
    /\ ei = 0
    /\ jsonData = Nil
    /\ out = <<>>
    \* empty after construction; an earlier scrape leaves its entries behind
    /\ metricCache \in {<<>>, "envoy_production_watts_now" :> F(1000)}
    /\ written = <<>>
    /\ ci = 0
    /\ expr = ""
    /\ iters = 0
    /\ rlocked = FALSE
    /\ scr = <<>>
    /\ mqtt = MqttOff
    /\ auth = AuthOff

harnessVars == <<doc, call, config, device, scr, mqtt, auth>>

query == config.queries[qi]

\* serveMetrics clears the cache
ClearCache ==
    /\ pc = "start"
    /\ metricCache' = <<>>
    /\ qi' = 1
    /\ pc' = "query"
    /\ UNCHANGED <<harnessVars, mi, ei, jsonData, out, written, ci, expr, iters, rlocked>>

\* the variant in which a failed fetch ends the handler with an empty response
FetchFailAbort ==
    /\ pc = "query"
    /\ qi <= Len(config.queries)
    /\ device[qi] = FetchError
    /\ pc' = "done"
    /\ UNCHANGED <<harnessVars, qi, mi, ei, jsonData, out, metricCache, written, ci,
                   expr, iters, rlocked>>

\* makeEnvoyRequest returns an error: continue
FetchFail ==
    /\ pc = "query"
    /\ qi <= Len(config.queries)
    /\ device[qi] = FetchError
    /\ qi' = qi + 1
    /\ UNCHANGED <<harnessVars, pc, mi, ei, jsonData, out, metricCache, written, ci,
                   expr, iters, rlocked>>

\* json.Unmarshal returns an error: continue
ParseFail ==
    /\ pc = "query"
    /\ qi <= Len(config.queries)
    /\ device[qi] = BadJson
    /\ qi' = qi + 1
    /\ UNCHANGED <<harnessVars, pc, mi, ei, jsonData, out, metricCache, written, ci,
                   expr, iters, rlocked>>

\* the query's condition is not met: continue
ConditionSkip ==
    /\ pc = "query"
    /\ qi <= Len(config.queries)
    /\ device[qi].k = "json"
    /\ ~checkCondition(query.condition, device[qi].d)
    /\ qi' = qi + 1
    /\ UNCHANGED <<harnessVars, pc, mi, ei, jsonData, out, metricCache, written, ci,
                   expr, iters, rlocked>>

\* the query's document is fetched and parsed and its condition is met
BeginMetrics ==
    /\ pc = "query"
    /\ qi <= Len(config.queries)
    /\ device[qi].k = "json"
    /\ checkCondition(query.condition, device[qi].d)
    /\ jsonData' = device[qi].d
    /\ mi' = 1
    /\ ei' = 1
    /\ pc' = "metrics"
    /\ UNCHANGED <<harnessVars, qi, out, metricCache, written, ci, expr, iters, rlocked>>

\* processMetric on the document of a query that is not an array query
ScalarMetric ==
    /\ pc = "metrics"
    /\ mi <= Len(query.metrics)
    /\ ~query.array
    /\ \E ord \in Orders(LabelKeys(query.metrics[mi], jsonData)) :
          LET r == processMetric(query.metrics[mi], jsonData, metricCache, ord)
          IN  /\ out' = out \o r.lines
              /\ metricCache' = r.cache
    /\ mi' = mi + 1
    /\ UNCHANGED <<harnessVars, pc, qi, ei, jsonData, written, ci, expr, iters, rlocked>>

\* the variant that renders the metric of an array query on a document that
\* is not an array
NotArrayRender ==
    /\ pc = "metrics"
    /\ mi <= Len(query.metrics)
    /\ query.array
    /\ jsonData.t # "arr"
    /\ \E ord \in Orders(LabelKeys(query.metrics[mi], jsonData)) :
          LET r == processMetric(query.metrics[mi], jsonData, metricCache, ord)
          IN  /\ out' = out \o r.lines
              /\ metricCache' = r.cache
    /\ mi' = mi + 1
    /\ UNCHANGED <<harnessVars, pc, qi, ei, jsonData, written, ci, expr, iters, rlocked>>

\* an array query whose document is not an array: the metric is passed over
NotArraySkip ==
    /\ pc = "metrics"
    /\ mi <= Len(query.metrics)
    /\ query.array
    /\ jsonData.t # "arr"
    /\ mi' = mi + 1
    /\ UNCHANGED <<harnessVars, pc, qi, ei, jsonData, out, metricCache, written, ci,
                   expr, iters, rlocked>>

\* the variant that hands every call the first element
ArrayElementMetricFirst ==
    /\ pc = "metrics"
    /\ mi <= Len(query.metrics)
    /\ query.array
    /\ jsonData.t = "arr"
    /\ ei <= Len(jsonData.a)
    /\ \E ord \in Orders(LabelKeys(query.metrics[mi], jsonData.a[1])) :
          LET r == processMetric(query.metrics[mi], jsonData.a[1], metricCache, ord)
          IN  /\ out' = out \o r.lines
              /\ metricCache' = r.cache
    /\ ei' = ei + 1
    /\ UNCHANGED <<harnessVars, pc, qi, mi, jsonData, written, ci, expr, iters, rlocked>>

\* processArrayMetrics: processMetric on the next element
ArrayElementMetric ==
    /\ pc = "metrics"
    /\ mi <= Len(query.metrics)
    /\ query.array
    /\ jsonData.t = "arr"
    /\ ei <= Len(jsonData.a)
    /\ \E ord \in Orders(LabelKeys(query.metrics[mi], jsonData.a[ei])) :
          LET r == processMetric(query.metrics[mi], jsonData.a[ei], metricCache, ord)
          IN  /\ out' = out \o r.lines
              /\ metricCache' = r.cache
    /\ ei' = ei + 1
    /\ UNCHANGED <<harnessVars, pc, qi, mi, jsonData, written, ci, expr, iters, rlocked>>

\* processArrayMetrics returns
ArrayMetricDone ==
    /\ pc = "metrics"
    /\ mi <= Len(query.metrics)
    /\ query.array
    /\ jsonData.t = "arr"
    /\ ei > Len(jsonData.a)
    /\ mi' = mi + 1
    /\ ei' = 1
    /\ UNCHANGED <<harnessVars, pc, qi, jsonData, out, metricCache, written, ci, expr,
                   iters, rlocked>>

\* the query's metrics are done
QueryDone ==
    /\ pc = "metrics"
    /\ mi > Len(query.metrics)
    /\ qi' = qi + 1
    /\ pc' = "query"
    /\ UNCHANGED <<harnessVars, mi, ei, jsonData, out, metricCache, written, ci, expr,
                   iters, rlocked>>

\* the variant that goes on to the calculated metrics from any query
QueriesDoneEarly ==
    /\ pc = "query"
    /\ rlocked' = TRUE
    /\ ci' = 1
    /\ pc' = "calc"
    /\ UNCHANGED <<harnessVars, qi, mi, ei, jsonData, out, metricCache, written, expr,
                   iters>>

\* the queries are done: processCalculatedMetrics takes the read lock
QueriesDone ==
    /\ pc = "query"
    /\ qi > Len(config.queries)
    /\ rlocked' = TRUE
    /\ ci' = 1
    /\ pc' = "calc"
    /\ UNCHANGED <<harnessVars, qi, mi, ei, jsonData, out, metricCache, written, expr,
                   iters>>

calc == config.calcs[ci]

\* the calculation's condition is not met: continue
CalcSkip ==
    /\ pc = "calc"
    /\ ci <= Len(config.calcs)
    /\ ~checkCalculatedCondition(calc.condition, metricCache)
    /\ ci' = ci + 1
    /\ UNCHANGED <<harnessVars, pc, qi, mi, ei, jsonData, out, metricCache, written,
                   expr, iters, rlocked>>

\* evaluateCalculation replaces the metric names by their values
SubstituteNames ==
    /\ pc = "calc"
    /\ ci <= Len(config.calcs)
    /\ checkCalculatedCondition(calc.condition, metricCache)
    /\ \E ord \in Orders(DOMAIN metricCache) :
          expr' = Substitute(calc.calculation, metricCache, ord, 1)
    /\ iters' = 0
    /\ pc' = "max"
    /\ UNCHANGED <<harnessVars, qi, mi, ei, jsonData, out, metricCache, written, ci,
                   rlocked>>

\* one iteration of the max(0, loop; a panic unwinds the handler, the deferred
\* RUnlock runs and net/http drops the connection with nothing written
MaxIter ==
    /\ pc = "max"
    /\ Contains(expr, "max(0,")
    /\ LET r == MaxStep(expr)
       IN  IF r.panic
           THEN /\ pc' = "panicked"
                /\ rlocked' = FALSE
                /\ UNCHANGED <<expr, iters>>
           ELSE /\ expr' = r.expr
                /\ iters' = iters + 1
                /\ UNCHANGED <<pc, rlocked>>
    /\ UNCHANGED <<harnessVars, qi, mi, ei, jsonData, out, metricCache, written, ci>>

MaxExit ==
    /\ pc = "max"
    /\ ~Contains(expr, "max(0,")
    /\ pc' = "clamp"
    /\ UNCHANGED <<harnessVars, qi, mi, ei, jsonData, out, metricCache, written, ci,
                   expr, iters, rlocked>>

\* one iteration of the clamp( loop
ClampIter ==
    /\ pc = "clamp"
    /\ Contains(expr, "clamp(")
    /\ iters < MaxIters
    /\ LET r == ClampStep(expr)
       IN  IF r.panic
           THEN /\ pc' = "panicked"
                /\ rlocked' = FALSE
                /\ UNCHANGED <<expr, iters>>
           ELSE /\ expr' = r.expr
                /\ iters' = iters + 1
                /\ UNCHANGED <<pc, rlocked>>
    /\ UNCHANGED <<harnessVars, qi, mi, ei, jsonData, out, metricCache, written, ci>>

ClampExit ==
    /\ pc = "clamp"
    /\ ~Contains(expr, "clamp(")
    /\ pc' = "coalesce"
    /\ UNCHANGED <<harnessVars, qi, mi, ei, jsonData, out, metricCache, written, ci,
                   expr, iters, rlocked>>

\* one iteration of the coalesce( loop
CoalesceIter ==
    /\ pc = "coalesce"
    /\ Contains(expr, "coalesce(")
    /\ iters < MaxIters
    /\ LET r == CoalesceStep(expr)
       IN  IF r.panic
           THEN /\ pc' = "panicked"
                /\ rlocked' = FALSE
                /\ UNCHANGED <<expr, iters>>
           ELSE /\ expr' = r.expr
                /\ iters' = iters + 1
                /\ UNCHANGED <<pc, rlocked>>
    /\ UNCHANGED <<harnessVars, qi, mi, ei, jsonData, out, metricCache, written, ci>>

\* the variant that also stores the value of the calculated metric in the cache
EvaluateAndWriteCached ==
    /\ pc = "coalesce"
    /\ ~Contains(expr, "coalesce(")
    /\ out' = out \o CalcLines(calc, evaluateExpression(expr))
    /\ metricCache' = IF evaluateExpression(expr).nan THEN metricCache
                      ELSE (calc.name :> evaluateExpression(expr)) @@ metricCache
    /\ ci' = ci + 1
    /\ pc' = "calc"
    /\ UNCHANGED <<harnessVars, qi, mi, ei, jsonData, written, expr, iters, rlocked>>

\* replaceFunctions returns; the expression is evaluated and, unless NaN, its
\* lines are written
EvaluateAndWrite ==
    /\ pc = "coalesce"
    /\ ~Contains(expr, "coalesce(")
    /\ out' = out \o CalcLines(calc, evaluateExpression(expr))
    /\ ci' = ci + 1
    /\ pc' = "calc"
    /\ UNCHANGED <<harnessVars, qi, mi, ei, jsonData, metricCache, written, expr,
                   iters, rlocked>>

\* processCalculatedMetrics returns and releases the read lock
CalcsDone ==
    /\ pc = "calc"
    /\ ci > Len(config.calcs)
    /\ rlocked' = FALSE
    /\ pc' = "health"
    /\ UNCHANGED <<harnessVars, qi, mi, ei, jsonData, out, metricCache, written, ci,
                   expr, iters>>

\* the exporter info is appended and the response written
WriteResponse ==
    /\ pc = "health"
    /\ \E tokenExpires \in TokenExpiries, now \in Clock :
          out' = out \o HealthLines(tokenExpires, now)
    /\ written' = out'
    /\ pc' = "done"
    /\ UNCHANGED <<harnessVars, qi, mi, ei, jsonData, metricCache, ci, expr, iters,
                   rlocked>>

Next ==
    \/ ClearCache
    \/ FetchFail
    \/ ParseFail
    \/ ConditionSkip
    \/ BeginMetrics
    \/ ScalarMetric
    \/ NotArraySkip
    \/ ArrayElementMetric
    \/ ArrayMetricDone
    \/ QueryDone
    \/ QueriesDone
    \/ CalcSkip
    \/ SubstituteNames
    \/ MaxIter
    \/ MaxExit
    \/ ClampIter
    \/ ClampExit
    \/ CoalesceIter
    \/ EvaluateAndWrite
    \/ CalcsDone
    \/ WriteResponse

Spec == Init /\ [][Next]_vars

---------------------------------------------------------------------------
(* The same handler with one power query and the calculations varied *)

QPower ==
    Query("power", FALSE, "",
          << Gauge("envoy_pv_power_watts", "PV power", "", "",
                   <<Field("pv", "", "", "")>>),
             Gauge("envoy_load_power_watts", "Load power", "", "",
                   <<Field("load", "", "", "")>>),
             Gauge("envoy_storage_power_watts", "Storage power", "", "",
                   <<Field("storage", "", "", "")>>) >>)

PV == "envoy_pv_power_watts"

LOAD == "envoy_load_power_watts"

Calculations ==
    { "max(0, " \o PV \o " - " \o LOAD \o ")",
      PV \o " / " \o LOAD,
      PV \o " + " \o LOAD,
      PV \o " * " \o LOAD,
      "clamp(0, 100, " \o PV \o ")",
      "clamp(0, 100)",
      "clamp(0, 100, max(0, " \o PV \o " - " \o LOAD \o "))",
      "clamp(0, 100, coalesce(" \o PV \o ", " \o LOAD \o "))",
      "coalesce(" \o PV \o ", " \o LOAD \o ")",
      "coalesce(" \o PV \o ")",
      "max(0, " \o PV \o ") + max(0, " \o LOAD \o ")",
      "max(0,",
      PV \o " - max(0,",
      "max(0, " \o PV,
      "(" \o PV \o " + " \o LOAD,
      PV \o " +",
      "",
      "envoy_unknown_watts + 1",
      "envoy_after + 1",
      "clamp(",
      "coalesce(" }

CalcConditions == {"pv_producing", "load_present", "storage_present", "daytime"}

CalcDefs ==
    {Calc("envoy_calc", "", c) : c \in Calculations}
    \cup {Calc("envoy_calc", cond, PV \o " + " \o LOAD) : cond \in CalcConditions}

CalcAfter == Calc("envoy_after", "", PV \o " + 1")

\* a second calculation that names the first calculated metric
CalcOfCalc == Calc("envoy_after", "", "envoy_calc + 1")

InitCalc ==
    /\ doc = Nil
    /\ call = [fn |-> "none"]
    /\ \E c \in CalcDefs, after \in {CalcAfter, CalcOfCalc} :
          config = [queries |-> <<QPower>>, conditions |-> <<>>,
                    calcs |-> <<c, after>>]
    /\ device \in DeviceStates(<<QPower>>)
    /\ pc = "start"
    /\ qi = 0
    /\ mi = 0
    /\ ei = 0
    /\ jsonData = Nil
    /\ out = <<>>
    /\ metricCache = <<>>
    /\ written = <<>>
    /\ ci = 0
    /\ expr = ""
    /\ iters = 0
    /\ rlocked = FALSE
    /\ scr = <<>>
    /\ mqtt = MqttOff
    /\ auth = AuthOff

NextCalc ==
    \/ ClearCache
    \/ FetchFail
    \/ ParseFail
    \/ BeginMetrics
    \/ ScalarMetric
    \/ QueryDone
    \/ QueriesDone
    \/ CalcSkip
    \/ SubstituteNames
    \/ MaxIter
    \/ MaxExit
    \/ ClampIter
    \/ ClampExit
    \/ CoalesceIter
    \/ EvaluateAndWrite
    \/ CalcsDone
    \/ WriteResponse

SpecCalc == InitCalc /\ [][NextCalc]_vars

---------------------------------------------------------------------------
(* Claims about the path extractor and the condition evaluator *)

\* every segment is a key present in the successively nested maps
RECURSIVE ChainPresent(_, _)
ChainPresent(d, segs) ==
    \/ segs = <<>>
    \/ /\ d.t = "map"
       /\ Head(segs) \in DOMAIN d.m
       /\ ChainPresent(d.m[Head(segs)], Tail(segs))

\* the value at the end of a present chain
RECURSIVE Terminal(_, _)
Terminal(d, segs) ==
    IF segs = <<>> THEN d ELSE Terminal(d.m[Head(segs)], Tail(segs))

\* C1: getJSONPathValue returns the terminal value when every segment of the
\* path is a key present in the successively nested maps, and nil (absent)
\* when a segment is missing or has to index into an array or a scalar; it
\* never returns a partially resolved intermediate value.
C1_PathResolution ==
    call.fn = "getJSONPathValue" =>
        LET segs == Split(call.arg, ".")
        IN  IF ChainPresent(doc, segs)
            THEN call.res = Terminal(doc, segs)
            ELSE call.res = Nil

\* a two-segment path resolved to a number through two nested maps
C1_Witness ==
    /\ call.fn = "getJSONPathValue"
    /\ call.arg = "a.b"
    /\ doc.t = "map"
    /\ call.res = Num(2000)

\* C4: checkCondition is true for every document when the condition name is
\* empty or names no entry of the condition table, and evaluateConditionCheck
\* is true for every check string that matches none of the known verbs.
C4_FailOpen ==
    /\ ( /\ call.fn = "checkCondition"
         /\ \/ call.arg = ""
            \/ \A k \in 1..Len(config.conditions) :
                  config.conditions[k].name # call.arg )
       => call.res = TRUE
    /\ ( /\ call.fn = "evaluateConditionCheck"
         /\ call.arg \in {"always_on", "", "Endpoint_accessible",
                          "path_exists(a)", "has_type(X)"} )
       => call.res = TRUE

\* an unknown verb evaluated against the null document, with a table configured
C4_Witness ==
    /\ call.fn = "evaluateConditionCheck"
    /\ call.arg = "has_type(X)"
    /\ doc = Nil
    /\ call.res = TRUE
    /\ config.conditions # <<>>

\* the document is an array with a map element whose "type" is the string ty
HasElementOfType(d, ty) ==
    /\ d.t = "arr"
    /\ \E k \in 1..Len(d.a) :
          /\ d.a[k].t = "map"
          /\ "type" \in DOMAIN d.a[k].m
          /\ d.a[k].m["type"] = Str(ty)

\* C5: a check array_has_type(T), with T written bare or in double quotes, is
\* true exactly when the document is an array holding at least one map
\* element whose "type" field is the string T.
C5_ArrayHasType ==
    call.fn = "evaluateConditionCheck" =>
        \A ty \in TypeNames :
            call.arg \in {"array_has_type(" \o ty \o ")",
                          "array_has_type(\"" \o ty \o "\")"}
            => (call.res <=> HasElementOfType(doc, ty))

\* the matching element is the second of two
C5_Witness ==
    /\ call.fn = "evaluateConditionCheck"
    /\ call.arg = "array_has_type(Y)"
    /\ doc = Arr(<<Map("type" :> Str("X")), Map("type" :> Str("Y"))>>)
    /\ call.res = TRUE

---------------------------------------------------------------------------
(* Claims about a scrape *)

\* the line is a HELP, TYPE or sample line of the metric `name`
IsLineOf(line, name) ==
    \/ HasPrefix(line, "# HELP " \o name \o " ")
    \/ HasPrefix(line, "# TYPE " \o name \o " ")
    \/ HasPrefix(line, name \o " ")
    \/ HasPrefix(line, name \o "{")

LinesOf(lines, name) ==
    LET Test(line) == IsLineOf(line, name) IN SelectSeq(lines, Test)

IsSampleOf(line, name) ==
    HasPrefix(line, name \o " ") \/ HasPrefix(line, name \o "{")

\* C2: when a non-array query's document resolves the path of a metric's
\* single value field to a number v, the output holds the metric's HELP line,
\* its TYPE line and the sample line "name v", in this order, and when the
\* scrape finishes the cache maps the name to v.
C2_ScalarSample ==
    \A v \in {4250500, 0} :
        ( /\ qi >= 2
          /\ config.queries[1] = QProduction
          /\ device[1] = Json(Map("wattsNow" :> Num(v))) )
        => /\ LinesOf(out, "envoy_production_watts_now")
                = << "# HELP envoy_production_watts_now Current production",
                     "# TYPE envoy_production_watts_now gauge",
                     "envoy_production_watts_now "
                        \o (IF v = 4250500 THEN "4250.5" ELSE "0") >>
           /\ pc = "done" =>
                 /\ written = out
                 /\ "envoy_production_watts_now" \in DOMAIN metricCache
                 /\ metricCache["envoy_production_watts_now"] = F(v)

\* the one-query scrape of the document {"wattsNow": 4250.5} has finished
C2_Witness ==
    /\ pc = "done"
    /\ config.queries = <<QProduction>>
    /\ device[1] = Json(Map("wattsNow" :> Num(4250500)))
    /\ written[3] = "envoy_production_watts_now 4250.5"
    /\ metricCache["envoy_production_watts_now"] = F(4250500)

\* what one element of the inverter array is to give
ExpectedInverterLines(elem) ==
    << "# HELP envoy_inverter_watts Inverter power",
       "# TYPE envoy_inverter_watts gauge" >>
    \o (IF "lastReportWatts" \in DOMAIN elem.m
        THEN << "envoy_inverter_watts{serial=\"" \o elem.m["serialNumber"].s \o "\"} "
                \o (IF elem.m["lastReportWatts"] = Num(100000) THEN "100" ELSE "0") >>
        ELSE <<>>)

RECURSIVE ExpectedInverterOutput(_, _)
ExpectedInverterOutput(arr, n) ==
    IF n = 0 THEN <<>>
    ELSE ExpectedInverterOutput(arr, n - 1) \o ExpectedInverterLines(arr[n])

\* C3: for an array query answered by an array of n elements the metric is
\* rendered once per element, in element order; every element whose value
\* field resolves gives its own HELP / TYPE / sample triplet with that
\* element's label and value, so n sample lines when all n resolve.
C3_ArrayPerElement ==
    ( /\ Len(config.queries) >= 2
      /\ config.queries[2] = QInverters
      /\ device[2].k = "json"
      /\ device[2].d.t = "arr" )
    => LET arr   == device[2].d.a
           lines == LinesOf(out, "envoy_inverter_watts")
           Sample(line) == IsSampleOf(line, "envoy_inverter_watts")
       IN  /\ (qi = 2 /\ pc = "metrics" /\ mi = 1)
                 => lines = ExpectedInverterOutput(arr, ei - 1)
           /\ qi > 2
                 => /\ lines = ExpectedInverterOutput(arr, Len(arr))
                    /\ (\A k \in 1..Len(arr) : "lastReportWatts" \in DOMAIN arr[k].m)
                          => Len(SelectSeq(lines, Sample)) = Len(arr)

\* the array of the inverters A1 (100 W) and A2 (0 W) has been rendered
C3_Witness ==
    /\ pc = "done"
    /\ Len(config.queries) >= 2
    /\ device[2].k = "json"
    /\ device[2].d.t = "arr"
    /\ Len(device[2].d.a) = 2
    /\ LinesOf(written, "envoy_inverter_watts")
          = << "# HELP envoy_inverter_watts Inverter power",
               "# TYPE envoy_inverter_watts gauge",
               "envoy_inverter_watts{serial=\"A1\"} 100",
               "# HELP envoy_inverter_watts Inverter power",
               "# TYPE envoy_inverter_watts gauge",
               "envoy_inverter_watts{serial=\"A2\"} 0" >>

\* the indices of the queries whose fetch and parse succeeded
Answered == {k \in 1..Len(config.queries) : device[k].k = "json"}

\* the scrape of the queries qs on the documents ds, written as a fold:
\* [lines, cache] after the k-th query, the metric m and the element n
RECURSIVE ScrapeOf(_, _, _, _, _)
ScrapeOf(qs, ds, k, m, n) ==
    IF k = 0 THEN [lines |-> <<>>, cache |-> <<>>]
    ELSE IF m = 0 \/ ~checkCondition(qs[k].condition, ds[k])
    THEN ScrapeOf(qs, ds, k - 1,
                  IF k > 1 THEN Len(qs[k - 1].metrics) ELSE 0,
                  IF k > 1 /\ ds[k - 1].t = "arr" THEN Len(ds[k - 1].a) ELSE 0)
    ELSE IF qs[k].array /\ (ds[k].t # "arr" \/ n = 0)
    THEN ScrapeOf(qs, ds, k, m - 1, IF ds[k].t = "arr" THEN Len(ds[k].a) ELSE 0)
    ELSE LET target == IF qs[k].array THEN ds[k].a[n] ELSE ds[k]
             before == IF qs[k].array
                       THEN ScrapeOf(qs, ds, k, m, n - 1)
                       ELSE ScrapeOf(qs, ds, k, m - 1, n)
             ord == CHOOSE o \in Orders(LabelKeys(qs[k].metrics[m], target)) : TRUE
             r == processMetric(qs[k].metrics[m], target, before.cache, ord)
         IN  [lines |-> before.lines \o r.lines, cache |-> r.cache]

\* the subsequence of s at the indices in keep
RECURSIVE Pick(_, _, _)
Pick(s, keep, k) ==
    IF k > Len(s) THEN <<>>
    ELSE (IF k \in keep THEN <<s[k]>> ELSE <<>>) \o Pick(s, keep, k + 1)

\* the scrape of the configuration without the queries that failed
ScrapeWithoutFailed ==
    LET qs == Pick(config.queries, Answered, 1)
        ds == Pick([k \in 1..Len(device) |-> IF k \in Answered THEN device[k].d ELSE Nil],
                   Answered, 1)
    IN  ScrapeOf(qs, ds, Len(qs),
                 IF Len(qs) > 0 THEN Len(qs[Len(qs)].metrics) ELSE 0,
                 IF Len(qs) > 0 /\ ds[Len(qs)].t = "arr" THEN Len(ds[Len(qs)].a) ELSE 0)

\* C10: when the fetch or the parse of a query fails, that query gives no
\* output lines and no cache entries, the other queries are processed in
\* order exactly as if the failing query were not configured, and the
\* calculated metrics and the exporter-health metrics are still produced.
C10_FailedQuerySkipped ==
    ( /\ pc \in {"calc", "max", "clamp", "coalesce", "health", "done"}
      /\ Answered # 1..Len(config.queries) )
    => LET ref == ScrapeWithoutFailed
       IN  /\ Len(out) >= Len(ref.lines)
           /\ SubSeq(out, 1, Len(ref.lines)) = ref.lines
           /\ metricCache = ref.cache
           /\ (pc = "calc" /\ ci = 1) => out = ref.lines
           /\ pc = "done" =>
                 /\ written = out
                 /\ LinesOf(written, "envoy_inverter_or_one") # <<>>
                 /\ \E tokenExpires \in TokenExpiries, now \in Clock :
                       SubSeq(written, Len(written) - 8, Len(written))
                          = HealthLines(tokenExpires, now)

\* the production fetch failed, the inverters that follow were rendered
C10_Witness ==
    /\ pc = "done"
    /\ Len(config.queries) = 3
    /\ device[1] = FetchError
    /\ device[2].k = "json"
    /\ device[3] = BadJson
    /\ "envoy_inverter_watts{serial=\"A1\"} 100" \in {written[i] : i \in 1..Len(written)}
    /\ "envoy_exporter_up 1" \in {written[i] : i \in 1..Len(written)}

---------------------------------------------------------------------------
(* Claims about the calculated metrics *)

\* the first calculation of the configuration
firstCalc == config.calcs[1]

\* C6: with a and b cached under two names A and B, "max(0, A - B)" without
\* a condition evaluates to max(0, a - b), for positive, zero and negative a
\* and b, and is written with two decimals.
C6_MaxOfDifference ==
    ( /\ pc = "calc"
      /\ ci = 2
      /\ firstCalc.calculation = "max(0, " \o PV \o " - " \o LOAD \o ")"
      /\ {PV, LOAD} \subseteq DOMAIN metricCache )
    => LinesOf(out, "envoy_calc")
          = << "# HELP envoy_calc Calculated",
               "# TYPE envoy_calc gauge",
               "envoy_calc "
                  \o Fmt2(F(Max2(0, metricCache[PV].v - metricCache[LOAD].v))) >>

\* the calculation is "A / B" and the cache holds 0 for B
DividesByCachedZero ==
    /\ ci >= 1
    /\ firstCalc.calculation = PV \o " / " \o LOAD
    /\ LOAD \in DOMAIN metricCache
    /\ metricCache[LOAD] = F(0)

\* C7: "A / B" with 0 cached for B evaluates to NaN, and no line at all is
\* written for that calculated metric.
C7_DivisionByZeroOmitted ==
    DividesByCachedZero
    => /\ (ci = 1 /\ pc = "coalesce") => evaluateExpression(expr).nan
       /\ LinesOf(out, "envoy_calc") = <<>>

\* 1000 / 0 was evaluated, nothing was written for it and the scrape finished
C7_Witness ==
    /\ DividesByCachedZero
    /\ PV \in DOMAIN metricCache
    /\ metricCache[PV] = F(1000000)
    /\ pc = "done"
    /\ LinesOf(written, "envoy_calc") = <<>>
    /\ LinesOf(written, "envoy_after") # <<>>

\* C8: for every calculation string evaluateCalculation returns a number or
\* NaN without a panic, and the scrape goes on to the remaining calculated
\* metrics and to the response.
C8_NoPanic == pc # "panicked"

\* the number of times `p` occurs in s
Count(s, p) == Len(Split(s, p)) - 1

CallSites(s) == Count(s, "max(0,") + Count(s, "clamp(") + Count(s, "coalesce(")

\* C9: every iteration of the loops of replaceFunctions removes a call site,
\* so the loops run at most as often as the calculation has call sites.
C9_IterationsRemoveCallSites ==
    pc \in {"max", "clamp", "coalesce"} => iters <= CallSites(calc.calculation)

---------------------------------------------------------------------------
(* Claims about the order of a scrape *)

HealthStarted(lines) ==
    \E i \in 1..Len(lines) : HasPrefix(lines[i], "# HELP envoy_exporter_up")

\* C11: in a scrape the cache is cleared first, the queries are then
\* processed in configuration order with all their cache writes, the
\* calculated metrics are evaluated after the last of these writes, and the
\* exporter-health lines are appended only after the last calculated metric.
C11_ScrapeOrder ==
    /\ [](pc = "start" => qi = 0 /\ ci = 0 /\ out = <<>>)
    /\ []((pc = "query" /\ qi = 1) => metricCache = <<>> /\ out = <<>>)
    /\ [](pc \in {"query", "metrics"} => ci = 0)
    /\ [](HealthStarted(out) => pc = "done" /\ ci > Len(config.calcs))
    /\ [][ /\ metricCache' # metricCache =>
                 \/ pc = "start" /\ metricCache' = <<>>
                 \/ pc = "metrics" /\ ci = 0
           /\ qi' # qi => qi' = qi + 1 /\ qi' <= Len(config.queries) + 1
           /\ ci' # ci =>
                 /\ ci' = ci + 1
                 /\ qi = Len(config.queries) + 1
           /\ written' # written =>
                 /\ ci = Len(config.calcs) + 1
                 /\ SubSeq(written', 1, Len(out)) = out
                 /\ HealthStarted(written') /\ ~HealthStarted(out) ]_vars

\* a scrape of three queries has written raw metrics, cached two of them,
\* written a calculated metric and ended with the health lines
C11_Witness ==
    /\ pc = "done"
    /\ Len(config.queries) = 3
    /\ Cardinality(DOMAIN metricCache) >= 2
    /\ LinesOf(written, "envoy_inverter_or_one") # <<>>
    /\ written[Len(written)] = "envoy_scrape_timestamp 1761990000"

---------------------------------------------------------------------------
(* Two /metrics requests served concurrently, each in its own goroutine, on *)
(* the one exporter: e.metricCache and e.cacheMutex are shared, the rest is *)
(* local to a handler                                                       *)

Handlers == {1, 2}

ConcAnswers ==
    { FetchError,
      Json(Map(("pv" :> Num(1000000)) @@ ("load" :> Num(800000)))),
      Json(Map("pv" :> Num(500000))) }

ConcCalcs == <<Calc("envoy_sum", "", PV \o " + " \o LOAD)>>

InitConc ==
    /\ doc = Nil
    /\ call = [fn |-> "none"]
    /\ config = [queries |-> <<QPower>>, conditions |-> <<>>, calcs |-> ConcCalcs]
    /\ HandlerIdle
    /\ scr \in [Handlers -> {[pc |-> "start", qi |-> 0, mi |-> 0, jsonData |-> Nil,
                              out |-> <<>>, ci |-> 0, written |-> <<>>,
                              device |-> <<a>>] : a \in ConcAnswers}]
    /\ mqtt = MqttOff
    /\ auth = AuthOff

concFrame == <<doc, call, config, device, pc, qi, mi, ei, jsonData, out, written,
               ci, expr, iters, rlocked, mqtt, auth>>

\* cacheMutex.Lock() returns only while no other handler holds RLock
CanLock(h) == \A g \in Handlers \ {h} : scr[g].pc # "calc"

\* serveMetrics of handler h clears the cache
ConcClearCache(h) ==
    /\ scr[h].pc = "start"
    /\ CanLock(h)
    /\ metricCache' = <<>>
    /\ scr' = [scr EXCEPT ![h].pc = "query", ![h].qi = 1]
    /\ UNCHANGED concFrame

ConcFetchFail(h) ==
    /\ scr[h].pc = "query"
    /\ scr[h].qi <= Len(config.queries)
    /\ scr[h].device[scr[h].qi] = FetchError
    /\ scr' = [scr EXCEPT ![h].qi = @ + 1]
    /\ UNCHANGED <<concFrame, metricCache>>

ConcBeginMetrics(h) ==
    /\ scr[h].pc = "query"
    /\ scr[h].qi <= Len(config.queries)
    /\ scr[h].device[scr[h].qi].k = "json"
    /\ checkCondition(config.queries[scr[h].qi].condition, scr[h].device[scr[h].qi].d)
    /\ scr' = [scr EXCEPT ![h].jsonData = scr[h].device[scr[h].qi].d,
                          ![h].mi = 1, ![h].pc = "metrics"]
    /\ UNCHANGED <<concFrame, metricCache>>

\* processMetric of handler h; it takes cacheMutex.Lock when it has a sample
ConcScalarMetric(h) ==
    LET metric == config.queries[scr[h].qi].metrics[scr[h].mi]
    IN  /\ scr[h].pc = "metrics"
        /\ scr[h].mi <= Len(config.queries[scr[h].qi].metrics)
        /\ ~config.queries[scr[h].qi].array
        /\ CanLock(h) \/ MetricFields(metric, scr[h].jsonData).value = Nil
        /\ \E ord \in Orders(LabelKeys(metric, scr[h].jsonData)) :
              LET r == processMetric(metric, scr[h].jsonData, metricCache, ord)
              IN  /\ scr' = [scr EXCEPT ![h].out = @ \o r.lines, ![h].mi = @ + 1]
                  /\ metricCache' = r.cache
        /\ UNCHANGED concFrame

ConcQueryDone(h) ==
    /\ scr[h].pc = "metrics"
    /\ scr[h].mi > Len(config.queries[scr[h].qi].metrics)
    /\ scr' = [scr EXCEPT ![h].qi = @ + 1, ![h].pc = "query"]
    /\ UNCHANGED <<concFrame, metricCache>>

\* processCalculatedMetrics of handler h takes cacheMutex.RLock
ConcQueriesDone(h) ==
    /\ scr[h].pc = "query"
    /\ scr[h].qi > Len(config.queries)
    /\ scr' = [scr EXCEPT ![h].ci = 1, ![h].pc = "calc"]
    /\ UNCHANGED <<concFrame, metricCache>>

\* evaluateCalculation of a calculation without function calls, and the write
ConcEvaluateAndWrite(h) ==
    LET c == config.calcs[scr[h].ci]
    IN  /\ scr[h].pc = "calc"
        /\ scr[h].ci <= Len(config.calcs)
        /\ checkCalculatedCondition(c.condition, metricCache)
        /\ \E ord \in Orders(DOMAIN metricCache) :
              LET expression == Substitute(c.calculation, metricCache, ord, 1)
              IN  /\ ~Contains(expression, "max(0,")
                  /\ ~Contains(expression, "clamp(")
                  /\ ~Contains(expression, "coalesce(")
                  /\ scr' = [scr EXCEPT
                               ![h].out = @ \o CalcLines(c, evaluateExpression(expression)),
                               ![h].ci = @ + 1]
        /\ UNCHANGED <<concFrame, metricCache>>

\* processCalculatedMetrics of handler h returns and releases the read lock
ConcCalcsDone(h) ==
    /\ scr[h].pc = "calc"
    /\ scr[h].ci > Len(config.calcs)
    /\ scr' = [scr EXCEPT ![h].pc = "health"]
    /\ UNCHANGED <<concFrame, metricCache>>

ConcWriteResponse(h) ==
    /\ scr[h].pc = "health"
    /\ \E tokenExpires \in TokenExpiries, now \in Clock :
          scr' = [scr EXCEPT ![h].out = @ \o HealthLines(tokenExpires, now),
                             ![h].written = scr[h].out \o HealthLines(tokenExpires, now),
                             ![h].pc = "done"]
    /\ UNCHANGED <<concFrame, metricCache>>

NextConc ==
    \E h \in Handlers :
        \/ ConcClearCache(h)
        \/ ConcFetchFail(h)
        \/ ConcBeginMetrics(h)
        \/ ConcScalarMetric(h)
        \/ ConcQueryDone(h)
        \/ ConcQueriesDone(h)
        \/ ConcEvaluateAndWrite(h)
        \/ ConcCalcsDone(h)
        \/ ConcWriteResponse(h)

SpecConc == InitConc /\ [][NextConc]_vars

\* the cache entries the query processing of handler h writes
OwnEntries(h) ==
    LET keep == {k \in 1..Len(config.queries) : scr[h].device[k].k = "json"}
        qs == Pick(config.queries, keep, 1)
        ds == Pick([k \in 1..Len(config.queries) |->
                       IF k \in keep THEN scr[h].device[k].d ELSE Nil], keep, 1)
    IN  ScrapeOf(qs, ds, Len(qs),
                 IF Len(qs) > 0 THEN Len(qs[Len(qs)].metrics) ELSE 0,
                 0).cache

\* C12: when two /metrics requests are served concurrently, the cache a
\* handler's calculated-metric evaluation reads holds exactly the entries
\* that handler's own query processing wrote.
C12_ReadsOwnEntries ==
    \A h \in Handlers : scr[h].pc = "calc" => metricCache = OwnEntries(h)

---------------------------------------------------------------------------
(* IEEE 754 binary64 with round to nearest, ties to even, for quotients of  *)
(* small integers and their sums: [e, m] is m * 2^(e - 52), m the 53 bits   *)
(* of the significand, leading bit first.  Num above keeps float64 values   *)
(* on the grid of thousandths; here the rounding of the quotient itself is  *)
(* what is asked about.                                                     *)

Zero64 == [zero |-> TRUE]

Zeros(k) == [i \in 1..k |-> 0]

\* the bits plus one in the last place; one bit longer when all bits are 1
IncBits(bits) ==
    LET n == Len(bits)
        zeros == {i \in 1..n : bits[i] = 0}
    IN  IF zeros = {} THEN <<1>> \o Zeros(n)
        ELSE LET p == CHOOSE i \in zeros : \A k \in zeros : k <= i
             IN  [i \in 1..n |-> IF i < p THEN bits[i] ELSE IF i = p THEN 1 ELSE 0]

\* the 53 kept bits at exponent e, rounded up or not
Round64(e, kept, up) ==
    IF ~up THEN [zero |-> FALSE, e |-> e, m |-> kept]
    ELSE LET inc == IncBits(kept)
         IN  IF Len(inc) = 54
             THEN [zero |-> FALSE, e |-> e + 1, m |-> SubSeq(inc, 1, 53)]
             ELSE [zero |-> FALSE, e |-> e, m |-> inc]

\* n and d scaled by powers of two so that d <= n < 2d; e is log2 of the scale
RECURSIVE Normalize(_, _, _)
Normalize(n, d, e) ==
    IF n >= 2 * d THEN Normalize(n, 2 * d, e + 1)
    ELSE IF n < d THEN Normalize(2 * n, d, e - 1)
    ELSE [n |-> n, d |-> d, e |-> e]

\* long division, four bits at a time: the next 4k bits of r / d for r < d,
\* and the remainder left
RECURSIVE QuotientBits(_, _, _)
QuotientBits(r, d, k) ==
    IF k = 0 THEN [bits |-> <<>>, rem |-> r]
    ELSE LET q    == (16 * r) \div d
             rest == QuotientBits((16 * r) % d, d, k - 1)
         IN  [bits |-> <<q \div 8, (q \div 4) % 2, (q \div 2) % 2, q % 2>> \o rest.bits,
              rem  |-> rest.rem]

\* float64(n) / float64(d) for integers n >= 0 and d > 0 that float64 holds
Quotient64(n, d) ==
    IF n = 0 THEN Zero64
    ELSE LET s == Normalize(n, d, 0)
             q == QuotientBits(s.n - s.d, s.d, 13)
             kept == <<1>> \o q.bits
         IN  Round64(s.e, kept,
                     2 * q.rem > s.d \/ (2 * q.rem = s.d /\ kept[53] = 1))

\* a carry arrives at place i: a place below it generates one and the places
\* between pass it on
CarryInto(a, b, i) ==
    \E j \in (i + 1)..Len(a) :
        /\ a[j] = 1 /\ b[j] = 1
        /\ \A k \in (i + 1)..(j - 1) : a[k] + b[k] = 1

\* the sum of two bit strings of one length
AddBits(a, b) ==
    LET body == [i \in 1..Len(a) |->
                    (a[i] + b[i] + (IF CarryInto(a, b, i) THEN 1 ELSE 0)) % 2]
    IN  IF CarryInto(a, b, 0) THEN <<1>> \o body ELSE body

\* a + b for two values that are not negative
Sum64(a, b) ==
    IF a.zero THEN b
    ELSE IF b.zero THEN a
    ELSE LET hi == IF a.e >= b.e THEN a ELSE b
             lo == IF a.e >= b.e THEN b ELSE a
             shift == hi.e - lo.e
             sum == AddBits(hi.m \o Zeros(shift), Zeros(shift) \o lo.m)
             rest == SubSeq(sum, 54, Len(sum))
             sticky == \E i \in 2..Len(rest) : rest[i] = 1
         IN  Round64(hi.e + Len(sum) - (53 + shift), SubSeq(sum, 1, 53),
                     /\ rest # <<>>
                     /\ rest[1] = 1
                     /\ sticky \/ sum[53] = 1)

\* the variant that shifts by ten bits instead of dividing by 1000
mwToWattsShift(n) == Quotient64(n, 1024)

\* transformValue's mw_to_watts on the float64 n: f / 1000.0
mwToWatts(n) == Quotient64(n, 1000)

---------------------------------------------------------------------------
(* The renderer harness: one call of transformValue or of processMetric *)

KnownTransforms ==
    {"bool_to_int", "mw_to_watts", "connected_to_int", "ok_to_int", "enabled_to_int",
     "battery_state_to_int"}

TransformNames == KnownTransforms \cup {"", "signal_strength_percentage", "watts_to_kw"}

TransformInputs ==
    { Nil, Bool(TRUE), Bool(FALSE), Num(2000000), Num(0), Num(-1500000), Num(500),
      GoInt(2000), GoInt(0), GoInt(1),
      Str("connected"), Str("ok"), Str("enabled"), Str("charging"),
      Str("discharging"), Str("idle"), Str(""),
      Map("a" :> Num(1000)), Arr(<<>>), Arr(<<Bool(TRUE)>>) }

RenderDocs ==
    { Nil, Map(<<>>), Num(1000),
      Map("a" :> Num(2000000)),
      Map("b" :> Bool(TRUE)),
      Map(("a" :> Num(50000)) @@ ("b" :> Num(200000))),
      Map(("a" :> Str("X")) @@ ("b" :> Str("connected"))),
      Map(("a" :> Nil) @@ ("b" :> Num(0))),
      Map(("a" :> Num(50000)) @@ ("b" :> Num(0))),
      Map(("a" :> Num(50000)) @@ ("b" :> Num(-200000))),
      Map(("a" :> Num(50000)) @@ ("b" :> Str("200"))) }

InitRender ==
    /\ doc \in RenderDocs
    /\ call = [fn |-> "none"]
    /\ config = [queries |-> <<>>, conditions |-> HarnessConds, calcs |-> <<>>]
    /\ ScrapeIdle

CallTransformValue ==
    /\ call.fn = "none"
    /\ \E value \in TransformInputs, transform \in TransformNames :
          call' = [fn |-> "transformValue", arg |-> transform, val |-> value,
                   res |-> transformValue(value, transform)]
    /\ UNCHANGED <<doc, config, scrapeVars, scr, mqtt, auth>>

\* milliwatt readings, as float64 values that are whole numbers
MwInputs == {0, 100, 200, 700, 1000, 2000, 3000}

\* mw_to_watts on x, on y and on x + y (the sum of two such readings is exact)
CallMwToWatts ==
    /\ call.fn = "none"
    /\ \E x \in MwInputs, y \in MwInputs :
          call' = [fn |-> "mw_to_watts", x |-> x, y |-> y,
                   rx |-> mwToWatts(x), ry |-> mwToWatts(y),
                   rsum |-> mwToWatts(x + y)]
    /\ UNCHANGED <<doc, config, scrapeVars, scr, mqtt, auth>>

RenderFields ==
    { <<>>,
      <<Field("a", "", "", "")>>,
      <<Field("a", "", "", ""), Field("b", "", "", "")>>,
      <<Field("a", "", "", "mw_to_watts"), Field("b", "", "", "connected_to_int")>>,
      <<Field("b", "", "", "bool_to_int"), Field("a", "", "", "mw_to_watts")>>,
      <<Field("a", "id", "", ""), Field("b", "", "", "")>>,
      <<Field("b", "", "", ""), Field("a", "id", "fixed", "")>>,
      <<Field("a", "id", "fixed", "")>>,
      <<Field("a,b", "", "", "signal_strength_percentage")>>,
      <<Field("b", "", "", "connected_to_int")>>,
      <<Field("b", "", "", "bool_to_int")>>,
      <<Field("a,b", "", "", "signal_strength_percentage"), Field("a", "", "", "")>>,
      <<Field("a,b", "", "", "signal_strength_percentage"),
        Field("b,a", "", "", "signal_strength_percentage")>>,
      <<Field("b,a", "", "", "signal_strength_percentage"),
        Field("a,b", "", "", "signal_strength_percentage")>>,
      <<Field("a,b,a", "", "", "signal_strength_percentage"), Field("b", "", "", "")>>,
      <<Field("a", "", "", ""), Field("a,b", "pct", "", "signal_strength_percentage")>> }

RenderMetrics ==
    { Gauge("envoy_m", "A metric", condition, value, fields) :
          condition \in {"", "has_a", "nonexistent"},
          value \in {"", "42"},
          fields \in RenderFields }

RenderCaches == {<<>>, "envoy_m" :> F(7000)}

\* one call of processMetric on the document; pass1 is what its first loop
\* over the fields leaves in labels and metricValue
CallProcessMetric ==
    /\ call.fn = "none"
    /\ \E metric \in RenderMetrics, cache \in RenderCaches :
          \E ord \in Orders(LabelKeys(metric, doc)) :
              call' = [fn |-> "processMetric", metric |-> metric, cache |-> cache,
                       pass1 |-> FieldLoop(metric.fields, 1, doc, <<>>, Nil),
                       pass2 |-> PercentLoop(metric.fields, 1, doc,
                                    FieldLoop(metric.fields, 1, doc, <<>>, Nil).value),
                       res |-> processMetric(metric, doc, cache, ord)]
    /\ UNCHANGED <<doc, config, scrapeVars, scr, mqtt, auth>>

NextRender ==
    \/ CallTransformValue
    \/ CallMwToWatts
    \/ CallProcessMetric

SpecRender == InitRender /\ [][NextRender]_vars

\* the shape of value the transform is written for
ExpectedShape(transform, value) ==
    CASE transform = "bool_to_int" -> value.t = "bool"
      [] transform = "mw_to_watts" -> value.t \in {"num", "int"}
      [] transform \in {"connected_to_int", "ok_to_int", "enabled_to_int",
                        "battery_state_to_int"} -> value.t = "str"
      [] OTHER -> FALSE

\* C13: transformValue returns its input unchanged whenever the name is not a
\* known transform or the value does not have the shape the transform
\* expects (an absent value, a number or a boolean given to connected_to_int,
\* ok_to_int, enabled_to_int or battery_state_to_int).
C13_IdentityFallback ==
    ( /\ call.fn = "transformValue"
      /\ ~ExpectedShape(call.arg, call.val) )
    => call.res = call.val

\* C14: bool_to_int maps true to 1 and false to 0, leaves every input that
\* is not a boolean unchanged, and a second application gives what the first
\* gave.
C14_BoolToInt ==
    ( /\ call.fn = "transformValue"
      /\ call.arg = "bool_to_int" )
    => /\ call.val = Bool(TRUE) => call.res = GoInt(1)
       /\ call.val = Bool(FALSE) => call.res = GoInt(0)
       /\ call.val.t # "bool" => call.res = call.val
       /\ transformValue(call.res, "bool_to_int") = call.res

\* bool_to_int was applied to true
C14_Witness ==
    /\ call.fn = "transformValue"
    /\ call.arg = "bool_to_int"
    /\ call.val = Bool(TRUE)
    /\ call.res = GoInt(1)

\* C15 as stated: mw_to_watts is the input divided by 1000 (2000 gives 2,
\* 0 gives 0) and is linear: mw_to_watts(x + y) = mw_to_watts(x) +
\* mw_to_watts(y) for all inputs.
C15_Linear ==
    call.fn = "mw_to_watts" =>
        /\ call.x = 2000 => call.rx = Quotient64(2, 1)
        /\ call.x = 0 => call.rx = Zero64
        /\ call.rsum = Sum64(call.rx, call.ry)

\* C15 amended: mw_to_watts is the float64 quotient of the input by 1000,
\* which is the exact value for whole watts (2000 gives 2, 0 gives 0), and
\* mw_to_watts(x + y) = mw_to_watts(x) + mw_to_watts(y) holds when x and y
\* are whole multiples of 1000.
C15_LinearOnWholeWatts ==
    call.fn = "mw_to_watts" =>
        /\ call.x % 1000 = 0 => call.rx = Quotient64(call.x \div 1000, 1)
        /\ (call.x % 1000 = 0 /\ call.y % 1000 = 0)
              => call.rsum = Sum64(call.rx, call.ry)

\* 1000 mW and 2000 mW: 1 + 2 = 3
C15_Witness ==
    /\ call.fn = "mw_to_watts"
    /\ call.x = 1000
    /\ call.y = 2000
    /\ call.rsum = Quotient64(3, 1)
    /\ call.rsum = Sum64(call.rx, call.ry)

---------------------------------------------------------------------------
(* Claims about processMetric *)

SampleLines(lines) ==
    LET Test(line) == ~HasPrefix(line, "# ") IN SelectSeq(lines, Test)

\* C16 as stated: every invocation of processMetric on a definition with no
\* fields writes exactly one sample line (the static value, or 1 when none
\* is configured), and every invocation on a definition with fields writes
\* at most one sample line.
C16_OneSample ==
    call.fn = "processMetric" =>
        IF Len(call.metric.fields) = 0
        THEN SampleLines(call.res.lines)
                = << call.metric.name \o " "
                     \o (IF call.metric.value # "" THEN call.metric.value ELSE "1") >>
        ELSE Len(SampleLines(call.res.lines)) <= 1

\* C16 amended: every invocation whose condition passes writes exactly one
\* sample line (the static value, or 1) when the definition has no fields and
\* at most one sample line when it has fields; an invocation whose condition
\* fails writes none.
C16_OneSampleWhenConditionPasses ==
    call.fn = "processMetric" =>
        IF ~checkCondition(call.metric.condition, doc)
        THEN SampleLines(call.res.lines) = <<>>
        ELSE IF Len(call.metric.fields) = 0
        THEN SampleLines(call.res.lines)
                = << call.metric.name \o " "
                     \o (IF call.metric.value # "" THEN call.metric.value ELSE "1") >>
        ELSE Len(SampleLines(call.res.lines)) <= 1

\* a metric without fields and without a static value was rendered: sample 1
C16_Witness ==
    /\ call.fn = "processMetric"
    /\ call.metric.fields = <<>>
    /\ call.metric.value = ""
    /\ call.metric.condition = "has_a"
    /\ call.res.lines = << "# HELP envoy_m A metric", "# TYPE envoy_m gauge",
                           "envoy_m 1" >>

\* C17: when the metric's condition is false for the document, processMetric
\* writes nothing and leaves the cache unchanged; HELP and TYPE lines are
\* written only by invocations whose condition passed.
C17_ConditionFalseWritesNothing ==
    call.fn = "processMetric" =>
        /\ ~checkCondition(call.metric.condition, doc)
              => call.res.lines = <<>> /\ call.res.cache = call.cache
        /\ call.res.lines # <<>> => checkCondition(call.metric.condition, doc)

\* the condition has_a failed on a document without the key a
C17_Witness ==
    /\ call.fn = "processMetric"
    /\ call.metric.condition = "has_a"
    /\ doc = Map("b" :> Bool(TRUE))
    /\ call.metric.fields # <<>>
    /\ call.cache # <<>>
    /\ call.res = [lines |-> <<>>, cache |-> call.cache]

\* the fields without a label, in configuration order
ValueFields(fields) ==
    LET Test(field) == field.label = "" IN SelectSeq(fields, Test)

\* C20: after the first pass over the fields the metric value is the result
\* of resolving and transforming the last value field in configuration
\* order, also when the path of that field does not resolve.
C20_LastValueFieldWins ==
    call.fn = "processMetric" =>
        LET vf == ValueFields(call.metric.fields)
            last == vf[Len(vf)]
            got == getJSONPathValue(doc, last.jsonPath)
        IN  call.pass1.value
               = IF vf = <<>> THEN Nil
                 ELSE IF last.transform # "" THEN transformValue(got, last.transform)
                 ELSE got

\* the first value field resolved, the second did not: the value is absent
C20_Witness ==
    /\ call.fn = "processMetric"
    /\ call.metric.fields = <<Field("a", "", "", ""), Field("b", "", "", "")>>
    /\ doc = Map("a" :> Num(2000000))
    /\ call.pass1.value = Nil

---------------------------------------------------------------------------
(* Claims about the json_path_value check *)

\* the path written between the parentheses of a json_path_value check
PathOfCheck(check) ==
    LET rest == TrimPrefix(check, "json_path_value(")
    IN  Trim(Slice(rest, 0, Index(rest, ")")), CutSet)

\* C19: a check that starts with json_path_value(<path>) is true if and only
\* if the path resolves to a nonzero number, whatever follows the path in
\* the check string, also when nothing follows it or when what follows is
\* not separated from it by spaces.
C19_JsonPathValueNonzero ==
    ( /\ call.fn = "evaluateConditionCheck"
      /\ HasPrefix(call.arg, "json_path_value(") )
    => LET value == getJSONPathValue(doc, PathOfCheck(call.arg))
       IN  call.res <=> (value.t = "num" /\ value.n # 0)

---------------------------------------------------------------------------
(* The MQTT publisher: initMQTTPublisher on the main goroutine, the client's *)
(* on-connect handler on a goroutine of the client library, and publishLoop  *)
(* on its own goroutine                                                      *)

MaxTicks == 5

InitMqtt ==
    /\ doc = Nil
    /\ call = [fn |-> "none"]
    /\ config = [queries |-> <<>>, conditions |-> <<>>, calcs |-> <<>>]
    /\ HandlerIdle
    /\ scr = <<>>
    /\ auth = AuthOff
    /\ \E enabled \in BOOLEAN :
          mqtt = [pc |-> "init", enabled |-> enabled, connected |-> FALSE,
                  handler |-> "none", loop |-> "none", ticks |-> 0,
                  published |-> 0, status |-> "none"]

mqttFrame == <<doc, call, config, scrapeVars, scr, auth>>

\* e.config.MQTT.Enabled is false: return
MqttDisabled ==
    /\ mqtt.pc = "init"
    /\ ~mqtt.enabled
    /\ mqtt' = [mqtt EXCEPT !.pc = "returned"]
    /\ UNCHANGED mqttFrame

\* client.Connect() ends with an error: return, no publisher
MqttConnectFails ==
    /\ mqtt.pc = "init"
    /\ mqtt.enabled
    /\ mqtt' = [mqtt EXCEPT !.pc = "returned"]
    /\ UNCHANGED mqttFrame

\* client.Connect() succeeds; the client calls the on-connect handler on a
\* goroutine of its own
MqttConnect ==
    /\ mqtt.pc = "init"
    /\ mqtt.enabled
    /\ mqtt' = [mqtt EXCEPT !.pc = "connected", !.handler = "pending"]
    /\ UNCHANGED mqttFrame

\* the on-connect handler: connected = true, publishStatus("online")
MqttOnConnect ==
    /\ mqtt.handler = "pending"
    /\ mqtt' = [mqtt EXCEPT !.handler = "done", !.connected = TRUE,
                            !.status = "online"]
    /\ UNCHANGED mqttFrame

\* the connection-lost handler: connected = false; the broker publishes
\* the will "offline" on the status topic
MqttConnectionLost ==
    /\ mqtt.handler = "done"
    /\ mqtt.loop # "stopped"
    /\ mqtt' = [mqtt EXCEPT !.handler = "lost", !.connected = FALSE,
                            !.status = "offline"]
    /\ UNCHANGED mqttFrame

\* SetAutoReconnect(true): the client connects again and calls the
\* on-connect handler again
MqttReconnect ==
    /\ mqtt.handler = "lost"
    /\ mqtt.loop # "stopped"
    /\ mqtt' = [mqtt EXCEPT !.handler = "pending"]
    /\ UNCHANGED mqttFrame

\* go publisher.publishLoop(e); e.mqttPublisher = publisher
MqttStartLoop ==
    /\ mqtt.pc = "connected"
    /\ mqtt' = [mqtt EXCEPT !.pc = "initialized", !.loop = "startup"]
    /\ UNCHANGED mqttFrame

\* publishMetrics: nothing is published unless connected is set
publishMetrics(mp) ==
    IF mp.connected THEN [mp EXCEPT !.published = @ + 1] ELSE mp

\* publishLoop: the publishMetrics call before the select loop
MqttPublishAtStartup ==
    /\ mqtt.loop = "startup"
    /\ mqtt' = [publishMetrics(mqtt) EXCEPT !.loop = "select"]
    /\ UNCHANGED mqttFrame

\* publishLoop: a tick of the publish_interval ticker
MqttTick ==
    /\ mqtt.loop = "select"
    /\ mqtt.ticks < MaxTicks
    /\ mqtt' = [publishMetrics(mqtt) EXCEPT !.ticks = @ + 1]
    /\ UNCHANGED mqttFrame

\* publishLoop: shutdown is closed: publishStatus("offline"), Disconnect
MqttShutdown ==
    /\ mqtt.loop = "select"
    /\ mqtt' = [mqtt EXCEPT !.loop = "stopped", !.status = "offline",
                            !.handler = "none"]
    /\ UNCHANGED mqttFrame

NextMqtt ==
    \/ MqttDisabled
    \/ MqttConnectFails
    \/ MqttConnect
    \/ MqttOnConnect
    \/ MqttConnectionLost
    \/ MqttReconnect
    \/ MqttStartLoop
    \/ MqttPublishAtStartup
    \/ MqttTick
    \/ MqttShutdown

SpecMqtt == InitMqtt /\ [][NextMqtt]_vars

\* C18: after the initial connection to the broker succeeds the metrics
\* topics are published at once, before the first tick of publish_interval:
\* when publishLoop reaches its select loop the first publication has been
\* made, however the on-connect handler that sets the connected flag
\* interleaves with the start of publishLoop.
C18_PublishesAtStartup ==
    (mqtt.loop = "select" /\ mqtt.ticks = 0) => mqtt.published = 1

---------------------------------------------------------------------------
(* Claims about fields whose path does not resolve *)

\* C21: a field whose path does not resolve in the document contributes
\* nothing: a label field without a fixed label value adds no label, and a
\* metric whose only value field is absent and that has no static value
\* emits no sample line and writes nothing to the cache, whatever transform
\* the field names.
C21_AbsentFieldContributesNothing ==
    (call.fn = "processMetric" /\ checkCondition(call.metric.condition, doc)) =>
        LET fields == call.metric.fields
            vf == ValueFields(fields)
        IN  /\ \A i \in 1..Len(fields) :
                  ( /\ fields[i].label # ""
                    /\ fields[i].labelValue = ""
                    /\ getJSONPathValue(doc, fields[i].jsonPath) = Nil )
                  => fields[i].label \notin DOMAIN call.pass1.labels
            /\ ( /\ Len(vf) = 1
                 /\ vf[1].transform # "signal_strength_percentage"
                 /\ getJSONPathValue(doc, vf[1].jsonPath) = Nil
                 /\ call.metric.value = "" )
               => /\ SampleLines(call.res.lines) = <<>>
                  /\ call.res.cache = call.cache

---------------------------------------------------------------------------
(* Claims about the two-path percentage *)

\* the value fields of the metric that name the percentage transform on two
\* comma-joined paths, as indices into the fields
PercentFields(fields) ==
    {i \in 1..Len(fields) :
        /\ fields[i].label = ""
        /\ fields[i].transform = "signal_strength_percentage"
        /\ Len(Split(fields[i].jsonPath, ",")) = 2}

\* both paths of the field resolve to numbers and the second is positive
PercentGuard(field, data) ==
    LET paths == Split(field.jsonPath, ",")
        a == getJSONPathValue(data, paths[1])
        b == getJSONPathValue(data, paths[2])
    IN  a.t = "num" /\ b.t = "num" /\ b.n > 0

\* (a/b)*100 for the two paths of the field
Percentage(field, data) ==
    LET paths == Split(field.jsonPath, ",")
        a == getJSONPathValue(data, paths[1])
        b == getJSONPathValue(data, paths[2])
    IN  Num(FMul(FDiv(F(a.n), F(b.n)), F(100000)).v)

\* C22: for the value fields with transform signal_strength_percentage whose
\* path holds two comma-joined paths, the second pass sets the metric value
\* to (a/b)*100 exactly when both paths resolve to numbers and b > 0; the
\* last such field decides, and when no guard holds the value of the first
\* pass is left as it was.
C22_PercentageOverrides ==
    call.fn = "processMetric" =>
        LET fields == call.metric.fields
            passing == {i \in PercentFields(fields) : PercentGuard(fields[i], doc)}
            last == CHOOSE i \in passing : \A j \in passing : j <= i
        IN  call.pass2 = IF passing = {} THEN call.pass1.value
                         ELSE Percentage(fields[last], doc)

---------------------------------------------------------------------------
(* Claims about the queries that are passed over *)

\* the indices of the answered queries whose condition holds for the
\* document and, for an array query, whose document is an array
Rendered ==
    {k \in Answered :
        /\ checkCondition(config.queries[k].condition, device[k].d)
        /\ config.queries[k].array => device[k].d.t = "arr"}

\* the scrape of the configuration without the queries that are passed over
ScrapeOfRendered ==
    LET qs == Pick(config.queries, Rendered, 1)
        ds == Pick([k \in 1..Len(device) |-> IF k \in Answered THEN device[k].d ELSE Nil],
                   Rendered, 1)
    IN  ScrapeOf(qs, ds, Len(qs),
                 IF Len(qs) > 0 THEN Len(qs[Len(qs)].metrics) ELSE 0,
                 IF Len(qs) > 0 /\ ds[Len(qs)].t = "arr" THEN Len(ds[Len(qs)].a) ELSE 0)

\* C23: a query whose condition is false for its parsed response, and an
\* array query whose response is not an array, give no output lines and no
\* cache writes, while the queries before and after are processed as if the
\* query were not configured.
C23_SkippedQueryRendersNothing ==
    /\ ( /\ pc \in {"calc", "max", "clamp", "coalesce", "health", "done"}
         /\ Rendered # Answered )
       => LET ref == ScrapeOfRendered
          IN  /\ Len(out) >= Len(ref.lines)
              /\ SubSeq(out, 1, Len(ref.lines)) = ref.lines
              /\ metricCache = ref.cache
              /\ (pc = "calc" /\ ci = 1) => out = ref.lines
    /\ \A k \in Answered \ Rendered :
          \A m \in 1..Len(config.queries[k].metrics) :
              LinesOf(out, config.queries[k].metrics[m].name) = <<>>

\* the inverters query was answered by an object and the meters query's
\* condition failed; the production query before them was rendered
C23_Witness ==
    /\ pc = "done"
    /\ Len(config.queries) = 3
    /\ device[1] = Json(Map("wattsNow" :> Num(4250500)))
    /\ device[2] = Json(Map(<<>>))
    /\ device[3] = Json(Map("b" :> Num(1000)))
    /\ written[3] = "envoy_production_watts_now 4250.5"
    /\ metricCache["envoy_production_watts_now"] = F(4250500)

---------------------------------------------------------------------------
(* Claims about the cache writes of processMetric *)

\* the value written on a sample line: the text after the first space (no
\* label value of the rendered metrics holds a space)
ValueText(line) == SliceFrom(line, Index(line, " ") + 1)

\* C24: after processMetric the cache maps the metric's name to the numeric
\* value of the sample line it emitted, when that value is a number or a
\* numeric-parsable string (from a field, from the static fallback, or of a
\* metric without fields); a sample with a non-numeric value, and a call that
\* emits no sample, leave the cache unchanged.
C24_CacheHoldsLastSample ==
    call.fn = "processMetric" =>
        LET samples == SampleLines(call.res.lines)
            parsed == ParseFloat(ValueText(samples[1]))
        IN  IF samples # <<>> /\ parsed.ok
            THEN call.res.cache = (call.metric.name :> parsed.f) @@ call.cache
            ELSE call.res.cache = call.cache

---------------------------------------------------------------------------
(* Claims about the condition gate of the calculated metrics *)

\* the gate as the specification words it
GatePasses(condition, cache) ==
    IF condition = "pv_producing"
    THEN PV \in DOMAIN cache /\ ~cache[PV].nan /\ cache[PV].v > 0
    ELSE IF condition = "load_present"
    THEN LOAD \in DOMAIN cache /\ ~cache[LOAD].nan /\ cache[LOAD].v > 0
    ELSE IF condition = "storage_present"
    THEN "envoy_storage_power_watts" \in DOMAIN cache
    ELSE TRUE

\* C25: the gate of a calculated metric passes for pv_producing iff the cache
\* holds envoy_pv_power_watts with a value > 0, for load_present iff it holds
\* envoy_load_power_watts with a value > 0, for storage_present iff the key
\* envoy_storage_power_watts exists with any value, and for every other or
\* empty name; when the gate fails nothing is written for the metric.
C25_ConditionGate ==
    /\ [][ (pc = "calc" /\ ci <= Len(config.calcs) /\ ci' = ci + 1)
              => /\ ~GatePasses(calc.condition, metricCache)
                 /\ out' = out ]_vars
    /\ [][ (pc = "calc" /\ pc' = "max")
              => /\ GatePasses(calc.condition, metricCache)
                 /\ ci' = ci ]_vars
    /\ []( (ci >= 2 /\ ~GatePasses(firstCalc.condition, metricCache))
              => LinesOf(out, firstCalc.name) = <<>> )
    /\ []( ( /\ ci >= 2
             /\ firstCalc.condition \in CalcConditions
             /\ GatePasses(firstCalc.condition, metricCache)
             /\ {PV, LOAD} \subseteq DOMAIN metricCache )
              => Len(LinesOf(out, firstCalc.name)) = 3 )

\* storage_present passed on a cached 0 and the sum was written; the key
\* exists, its value is not positive
C25_Witness ==
    /\ pc = "done"
    /\ firstCalc.condition = "storage_present"
    /\ "envoy_storage_power_watts" \in DOMAIN metricCache
    /\ metricCache["envoy_storage_power_watts"] = F(0)
    /\ LinesOf(written, "envoy_calc")
          = << "# HELP envoy_calc Calculated", "# TYPE envoy_calc gauge",
               "envoy_calc 1800.00" >>

---------------------------------------------------------------------------
(* The evaluator harness: one call of evaluateExpression or of            *)
(* evaluateCalculation on a cache                                         *)

\* one of the three loops of replaceFunctions, run for at most n iterations:
\* [panic, hang, expr]; hang when the loop has not ended by then
RECURSIVE FunctionLoop(_, _, _)
FunctionLoop(name, e, n) ==
    IF ~Contains(e, name) THEN [panic |-> FALSE, hang |-> FALSE, expr |-> e]
    ELSE IF n = 0 THEN [panic |-> FALSE, hang |-> TRUE, expr |-> e]
    ELSE CHOOSE res \in
            { IF r.panic THEN [panic |-> TRUE, hang |-> FALSE, expr |-> e]
              ELSE FunctionLoop(name, r.expr, n - 1) :
                r \in { CASE name = "max(0," -> MaxStep(e)
                          [] name = "clamp(" -> ClampStep(e)
                          [] name = "coalesce(" -> CoalesceStep(e) } } : TRUE

\* the loop `name` after the loops before it, unless these panicked or hung
ThenLoop(before, name) ==
    CHOOSE res \in
        { IF a.panic \/ a.hang THEN a ELSE FunctionLoop(name, a.expr, MaxIters) :
            a \in {before} } : TRUE

replaceFunctions(e) ==
    ThenLoop(ThenLoop(FunctionLoop("max(0,", e, MaxIters), "clamp("), "coalesce(")

\* evaluateCalculation on the cache, the range over the cache visiting its
\* keys in the order `ord`
evaluateCalculation(calculation, cache, ord) ==
    CHOOSE res \in
        { IF r.panic THEN [k |-> "panic"]
          ELSE IF r.hang THEN [k |-> "hang"]
          ELSE [k |-> "value", f |-> evaluateExpression(r.expr)] :
            r \in {replaceFunctions(s) :
                     s \in {Substitute(calculation, cache, ord, 1)}} } : TRUE

Expressions ==
    { "1 + 2", "5 - 2", "2 * 3", "6 / 2", "6 / 0", "-5", "-5 + 2", "7", "2.5", "",
      "abc", "1 + 2 - 3", "2 * 3 + 1", "1 + 2 + 3", "5 - 2 - 1", "2 * 3 * 4",
      "8 / 2 / 2", "1 + 2 + 3 + 4", "5 - -2", " 4 ", "1 +", "1 + abc" }

PVT == "envoy_pv_power_watts_total"

EvalCalculations ==
    { "coalesce(" \o PV \o ", " \o LOAD \o ")",
      "coalesce(" \o PV \o ", 5)",
      "coalesce(" \o PV \o ", " \o LOAD \o ") + 1",
      PV \o " + 1",
      PV \o " + " \o LOAD,
      PVT \o " + 1",
      PVT \o " - " \o PV,
      "envoy_unknown_watts + 1",
      "max(0, " \o PV \o " - " \o LOAD \o ")",
      "clamp(0, 100, " \o PV \o ")",
      "7" }

EvalCaches ==
    {<<>>}
    \cup {PV :> F(v) : v \in {1000000, 0, -800000}}
    \cup {LOAD :> F(v) : v \in {800000, 0}}
    \cup {(PV :> F(v)) @@ (LOAD :> F(w)) :
             v \in {1000000, 0, -800000}, w \in {800000, 0, -300000}}
    \cup {(PV :> NaN) @@ (LOAD :> F(800000))}
    \cup {(PV :> F(1000000)) @@ (PVT :> F(5000000))}
    \cup {(PV :> F(1000000)) @@ (PVT :> F(5000000)) @@ (LOAD :> F(800000))}

InitEval ==
    /\ doc = Nil
    /\ call = [fn |-> "none"]
    /\ config = [queries |-> <<>>, conditions |-> <<>>, calcs |-> <<>>]
    /\ ScrapeIdle

CallEvaluateExpression ==
    /\ call.fn = "none"
    /\ \E e \in Expressions :
          call' = [fn |-> "evaluateExpression", arg |-> e,
                   res |-> evaluateExpression(e)]
    /\ UNCHANGED <<doc, config, scrapeVars, scr, mqtt, auth>>

CallEvaluateCalculation ==
    /\ call.fn = "none"
    /\ \E calculation \in EvalCalculations, cache \in EvalCaches :
          \E ord \in Orders(DOMAIN cache) :
              call' = [fn |-> "evaluateCalculation", arg |-> calculation,
                       cache |-> cache, ord |-> ord,
                       res |-> evaluateCalculation(calculation, cache, ord)]
    /\ UNCHANGED <<doc, config, scrapeVars, scr, mqtt, auth>>

NextEval ==
    \/ CallEvaluateExpression
    \/ CallEvaluateCalculation

SpecEval == InitEval /\ [][NextEval]_vars

\* the value of the expressions that hold one operator more than once
Arithmetic ==
    [e \in {"1 + 2 + 3", "5 - 2 - 1", "2 * 3 * 4", "8 / 2 / 2", "1 + 2 + 3 + 4"} |->
        CASE e = "1 + 2 + 3" -> F(6000)
          [] e = "5 - 2 - 1" -> F(2000)
          [] e = "2 * 3 * 4" -> F(24000)
          [] e = "8 / 2 / 2" -> F(2000)
          [] e = "1 + 2 + 3 + 4" -> F(10000)]

\* C26: evaluateExpression splits at the first occurrence of the operator
\* tried and recurses on both sides, so an expression over numeric literals
\* that holds the same operator more than once evaluates to its arithmetic
\* value, not to NaN.
C26_RepeatedOperator ==
    (call.fn = "evaluateExpression" /\ call.arg \in DOMAIN Arithmetic) =>
        call.res = Arithmetic[call.arg]


\* the cached value of a metric, NaN when the cache does not hold it
Cached(cache, name) == IF name \in DOMAIN cache THEN cache[name] ELSE NaN

\* A unless it is NaN or zero, else B
Coalesced(a, b) == IF a.nan \/ a.v = 0 THEN b ELSE a

\* C27: coalesce(A, B) expands to the value of A unless A evaluates to NaN
\* (for instance because A names a metric that is not in the cache) or to
\* exactly zero, and then to the value of B; a calculation that references a
\* metric absent from the cache outside of a coalesce evaluates to NaN.
C27_Coalesce ==
    call.fn = "evaluateCalculation" =>
        LET a == Cached(call.cache, PV)
            b == Cached(call.cache, LOAD)
        IN  /\ call.arg = "coalesce(" \o PV \o ", " \o LOAD \o ")"
                  => call.res = [k |-> "value", f |-> Coalesced(a, b)]
            /\ call.arg = "coalesce(" \o PV \o ", 5)"
                  => call.res = [k |-> "value", f |-> Coalesced(a, F(5000))]
            /\ call.arg = "coalesce(" \o PV \o ", " \o LOAD \o ") + 1"
                  => call.res = [k |-> "value", f |-> FAdd(Coalesced(a, b), F(1000))]
            /\ (call.arg = PV \o " + 1" /\ PV \notin DOMAIN call.cache)
                  => call.res = [k |-> "value", f |-> NaN]
            /\ (call.arg = PV \o " + " \o LOAD
                /\ ~({PV, LOAD} \subseteq DOMAIN call.cache))
                  => call.res = [k |-> "value", f |-> NaN]
            /\ call.arg = "envoy_unknown_watts + 1"
                  => call.res = [k |-> "value", f |-> NaN]

\* coalesce(A, B) was evaluated with 0 cached for A and 800 for B: 800
C27_Witness ==
    /\ call.fn = "evaluateCalculation"
    /\ call.arg = "coalesce(" \o PV \o ", " \o LOAD \o ")"
    /\ call.cache = (PV :> F(0)) @@ (LOAD :> F(800000))
    /\ call.res = [k |-> "value", f |-> F(800000)]


\* C28: the result of evaluateCalculation is determined by the calculation
\* and the cache alone, also when one cached name is a substring of another:
\* every order in which the range over the cache visits its entries gives the
\* same result.
C28_OrderIndependent ==
    call.fn = "evaluateCalculation" =>
        \A ord \in Orders(DOMAIN call.cache) :
            evaluateCalculation(call.arg, call.cache, ord) = call.res

---------------------------------------------------------------------------
(* Claims about the frame of processCalculatedMetrics *)

\* the calculation names another calculated metric of the configuration
NamesCalculated(k) ==
    \E j \in 1..Len(config.calcs) :
        j # k /\ Contains(config.calcs[k].calculation, config.calcs[j].name)

---------------------------------------------------------------------------
(* The bearer token: tokenRefreshLoop on its goroutine, a /metrics handler *)
(* and a status handler, each on a goroutine of net/http                   *)

MaxRefresh == 2

\* the token and the expiry that the n-th successful refresh stores
TokenOf(n) == "token" \o Itoa(n)

ExpiryOf(n) == 1762000000 + 86400 * n

\* after NewEnvoyExporter: the initial refreshToken has stored a token, the
\* refresh goroutine is started and the server accepts requests
InitAuth ==
    /\ doc = Nil
    /\ call = [fn |-> "none"]
    /\ config = [queries |-> <<>>, conditions |-> <<>>, calcs |-> <<>>]
    /\ HandlerIdle
    /\ scr = <<>>
    /\ mqtt = MqttOff
    /\ auth = [token |-> TokenOf(0), tokenExpires |-> ExpiryOf(0),
               writer |-> FALSE, readers |-> {},
               refresh |-> [pc |-> "peek", n |-> 0, expiresAt |-> 0],
               scrape |-> [pc |-> "idle", token |-> "", expires |-> 0],
               status |-> [pc |-> "idle", hasToken |-> FALSE, expires |-> 0]]

authFrame == <<doc, call, config, scrapeVars, scr, mqtt>>

\* tokenRefreshLoop: RLock, expiresAt := e.tokenExpires, RUnlock, then Sleep
RefreshPeek ==
    /\ auth.refresh.pc = "peek"
    /\ ~auth.writer
    /\ auth' = [auth EXCEPT !.refresh.pc = "request",
                            !.refresh.expiresAt = auth.tokenExpires]
    /\ UNCHANGED authFrame

\* refreshToken returns an error before it stores anything; the loop sleeps
\* and starts over
RefreshFails ==
    /\ auth.refresh.pc = "request"
    /\ auth' = [auth EXCEPT !.refresh.pc = "peek"]
    /\ UNCHANGED authFrame

\* refreshToken has the token response and calls tokenMutex.Lock()
RefreshResponds ==
    /\ auth.refresh.pc = "request"
    /\ auth.refresh.n < MaxRefresh
    /\ auth' = [auth EXCEPT !.refresh.pc = "lock", !.refresh.n = @ + 1]
    /\ UNCHANGED authFrame

\* Lock() returns once no reader holds the mutex
RefreshLock ==
    /\ auth.refresh.pc = "lock"
    /\ auth.readers = {}
    /\ auth' = [auth EXCEPT !.refresh.pc = "token", !.writer = TRUE]
    /\ UNCHANGED authFrame

\* e.token = ...
RefreshWriteToken ==
    /\ auth.refresh.pc = "token"
    /\ auth' = [auth EXCEPT !.refresh.pc = "expires",
                            !.token = TokenOf(auth.refresh.n)]
    /\ UNCHANGED authFrame

\* e.tokenExpires = ...; Unlock()
RefreshWriteExpires ==
    /\ auth.refresh.pc = "expires"
    /\ auth' = [auth EXCEPT !.refresh.pc = "log",
                            !.tokenExpires = ExpiryOf(auth.refresh.n),
                            !.writer = FALSE]
    /\ UNCHANGED authFrame

\* log.Printf("Token refreshed, ...", e.tokenExpires); return nil
RefreshLog ==
    /\ auth.refresh.pc = "log"
    /\ auth' = [auth EXCEPT !.refresh.pc = "peek"]
    /\ UNCHANGED authFrame

\* serveMetrics, makeEnvoyRequest: getToken takes RLock
ScrapeRLock ==
    /\ auth.scrape.pc = "idle"
    /\ ~auth.writer
    /\ auth' = [auth EXCEPT !.scrape.pc = "getToken", !.readers = @ \cup {"scrape"}]
    /\ UNCHANGED authFrame

\* getToken: return e.token, with the deferred RUnlock
ScrapeGetToken ==
    /\ auth.scrape.pc = "getToken"
    /\ auth' = [auth EXCEPT !.scrape.pc = "health", !.scrape.token = auth.token,
                            !.readers = @ \ {"scrape"}]
    /\ UNCHANGED authFrame

\* what a read of e.tokenExpires without the mutex can give: the stored value
\* or, while refreshToken is in its critical section, the value being stored
UnlockedExpires ==
    {auth.tokenExpires}
    \cup (IF auth.writer THEN {ExpiryOf(auth.refresh.n)} ELSE {})

\* serveMetrics: the envoy_token_expires_timestamp line reads e.tokenExpires
ScrapeReadExpires ==
    /\ auth.scrape.pc = "health"
    /\ \E seen \in UnlockedExpires :
          auth' = [auth EXCEPT !.scrape.pc = "done", !.scrape.expires = seen]
    /\ UNCHANGED authFrame

\* the next scrape
ScrapeAgain ==
    /\ auth.scrape.pc = "done"
    /\ auth' = [auth EXCEPT !.scrape.pc = "idle"]
    /\ UNCHANGED authFrame

\* the status handler takes RLock
StatusRLock ==
    /\ auth.status.pc = "idle"
    /\ ~auth.writer
    /\ auth' = [auth EXCEPT !.status.pc = "locked", !.readers = @ \cup {"status"}]
    /\ UNCHANGED authFrame

\* tokenExpires := e.tokenExpires; hasToken := e.token != ""; RUnlock
StatusRead ==
    /\ auth.status.pc = "locked"
    /\ auth' = [auth EXCEPT !.status.pc = "done",
                            !.status.expires = auth.tokenExpires,
                            !.status.hasToken = (auth.token # ""),
                            !.readers = @ \ {"status"}]
    /\ UNCHANGED authFrame

\* the next status request
StatusAgain ==
    /\ auth.status.pc = "done"
    /\ auth' = [auth EXCEPT !.status.pc = "idle"]
    /\ UNCHANGED authFrame

NextAuth ==
    \/ RefreshPeek
    \/ RefreshFails
    \/ RefreshResponds
    \/ RefreshLock
    \/ RefreshWriteToken
    \/ RefreshWriteExpires
    \/ RefreshLog
    \/ ScrapeRLock
    \/ ScrapeGetToken
    \/ ScrapeReadExpires
    \/ ScrapeAgain
    \/ StatusRLock
    \/ StatusRead
    \/ StatusAgain

SpecAuth == InitAuth /\ [][NextAuth]_vars

\* C30: the token and its expiry are read and written only while tokenMutex
\* is held: the refresh writes them holding the lock, and no scrape, status
\* handler or refresh step is about to read one of them without the mutex,
\* so none reads while refreshToken is in its critical section.
C30_TokenUnderMutex ==
    /\ auth.refresh.pc \in {"token", "expires"} => auth.writer
    /\ auth.status.pc = "locked" => ("status" \in auth.readers /\ ~auth.writer)
    /\ auth.scrape.pc = "getToken" => ("scrape" \in auth.readers /\ ~auth.writer)
    /\ auth.scrape.pc = "health" => ("scrape" \in auth.readers /\ ~auth.writer)
    /\ auth.refresh.pc = "log" => auth.writer

====
